---- MODULE Spec2Model ----
(***************************************************************************)
(* Reed-Solomon FEC packet filter RSFecFilter (src/srtcore/rsfec.cpp).     *)
(*                                                                         *)
(* One filter instance is modelled with its send side (feedSource,         *)
(* packControlPacket) and its receive side (receive) looped back through a *)
(* lossy, reordering, duplicating wire: every packet the send side has     *)
(* produced may be handed to receive any number of times, in any order.    *)
(*                                                                         *)
(* A shard is a sequence of payloadSize bytes.  The RS codec is libfec     *)
(* (external to the repository); it is modelled by its contract: parity    *)
(* symbols are injective functions of the data column, an erasure decode   *)
(* of a column that agrees with one codeword returns that codeword, and a  *)
(* column that agrees with no codeword makes the decoder either report     *)
(* failure or miscorrect.                                                  *)
(***************************************************************************)
EXTENDS Integers, Sequences, FiniteSets, TLC

\* ---------------------------------------------------------------- bounds
MaxK == 2          \* largest k (source shards per block) explored
MaxM == 2          \* largest m (parity shards per block) explored
MaxByte == 2       \* bytes are 0..MaxByte; source packets cycle through 1..MaxByte
MaxFeed == 3       \* feedSource calls per behaviour
MaxPack == 3       \* packControlPacket calls per behaviour
MaxRecv == 3       \* receive calls per behaviour
MaxFecRecv == 4    \* FECReedSolomon::receive calls per behaviour
MaxClock == 3      \* the steady clock runs over 0..MaxClock seconds
MaxTicks == 3      \* clock advances between send-side calls per behaviour
MAX_GROUP_AGE_IN_PACKETS == 2  \* RSFecFilter::Impl, 50 in the code, scaled
                               \* down: k + m may exceed it by more than one,
                               \* as 255 exceeds 50
MAX_GROUPS == 2    \* FECReedSolomon::MAX_GROUPS, 64 in the code, scaled down
GROUP_TIMEOUT == 2 \* FECReedSolomon::GROUP_TIMEOUT, 5 s in the code, scaled down

\* ------------------------------------------------------ program constants
payloadSize == 1   \* bytes per shard (one byte column)
SRT_SEQNO_NONE == -1
m_iSeqNoTH == 1073741823    \* 0x3FFFFFFF
m_iMaxSeqNo == 2147483647   \* 0x7FFFFFFF
rcvISN == 999               \* SrtFilterInitializer.rcv_isn of the test fixture
CleanupPeriod == 1          \* cleanupOldGroups runs at most once a second
\* 32-bit words of the wire format are kept as their two 16-bit halves
FEC_CTRL_FLAG == [hi |-> 32768, lo |-> 0]   \* 0x80000000
FEC_SUBTYPE == [hi |-> 8, lo |-> 0]         \* 0x00080000
FEC_HEADER_SIZE == 8

\* ------------------------------------------------------------- helpers
Abs(x) == IF x < 0 THEN -x ELSE x

\* CSeqNo::seqoff(seq1, seq2): signed distance seq2 - seq1 in the circular
\* 31-bit sequence space.
seqoff(seq1, seq2) ==
    IF Abs(seq1 - seq2) < m_iSeqNoTH THEN seq2 - seq1
    ELSE IF seq1 < seq2 THEN ((seq2 - seq1) - m_iMaxSeqNo) - 1
    ELSE ((seq2 - seq1) + m_iMaxSeqNo) + 1

\* CSeqNo::incseq(seq, inc)
incseq(seq, inc) ==
    IF m_iMaxSeqNo - seq >= inc THEN seq + inc
    ELSE ((seq - m_iMaxSeqNo) + inc) - 1

DataBytes == 0..MaxByte
ZeroShard == [j \in 1..payloadSize |-> 0]

RECURSIVE Pow(_, _)
Pow(b, e) == IF e = 0 THEN 1 ELSE b * Pow(b, e - 1)

RECURSIVE ColCode(_, _)
\* index of a data column among all data columns of its length
ColCode(col, i) ==
    IF i = 0 THEN 0
    ELSE col[i] * Pow(MaxByte + 1, i - 1) + ColCode(col, i - 1)

\* encode_rs_char(rs, data, parity): parity symbol p (0-based) of a data
\* column.  Distinct (column, p) give distinct symbols, and no parity symbol
\* is a data byte.
ParitySym(col, nroots, p) == 256 + ColCode(col, Len(col)) * nroots + p

encode_rs_char(col, nroots) == [p \in 1..nroots |-> ParitySym(col, nroots, p - 1)]

\* The codewords of the (k + nroots, k) code over the data bytes.
Codeword(d, nroots) == d \o encode_rs_char(d, nroots)

\* decode_rs_char(rs, data, eras_pos, no_eras): the set of results the
\* decoder may produce for a column with the 0-based erasure positions eras.
\* res >= 0: success, col holds the corrected column; res = -1: failure,
\* col is the column as passed in.  A column whose present symbols agree
\* with a codeword is corrected to it.  One that agrees with none is
\* miscorrected (the erased data symbols come out as some bytes) or, when
\* fewer than nroots positions are erased so that the redundancy left can
\* show the disagreement, reported as a failure.
decode_rs_char(col, eras, k, nroots) ==
    LET fits == {d \in [1..k -> DataBytes] :
                    \A i \in 1..(k + nroots) :
                        (i - 1) \notin eras => Codeword(d, nroots)[i] = col[i]}
        failed == [res |-> -1, col |-> col]
    IN  IF Cardinality(eras) > nroots THEN {failed}
        ELSE IF fits # {}
             THEN {[res |-> Cardinality(eras), col |-> Codeword(d, nroots)] : d \in fits}
             ELSE (IF Cardinality(eras) < nroots THEN {failed} ELSE {}) \cup
                  {[res |-> Cardinality(eras),
                    col |-> [i \in 1..(k + nroots) |->
                               IF (i - 1) \in eras /\ i <= k THEN f[i] ELSE col[i]]] :
                     f \in [1..k -> DataBytes]}

\* int is 32 bits wide
INT_MAX == 2147483647

\* atoi(timeout) * 1000, an int multiplication.  Beyond INT_MAX the
\* behaviour is undefined; builds wrap around modulo 2^32 (2^32 =
\* 4294967 * 1000 + 296), which is what is modelled for products below
\* 2^32 + 2^31.
Mul1000Int(t) ==
    IF t <= INT_MAX \div 1000 THEN t * 1000 ELSE (t - 4294967) * 1000 - 296

\* sync::count_microseconds(d) >= t_us for a duration of d milliseconds
count_microseconds_ge(d, t_us) ==
    IF t_us <= 0 THEN d >= 0 ELSE d >= ((t_us - 1) \div 1000) + 1

\* ------------------------------------------------------------- state
VARIABLES
    m_k,           \* source shards per block
    m_m,           \* parity shards per block
    m_timeout_us,  \* send-side flush deadline, 0 = disabled
    now,           \* steady clock, milliseconds
    nticks,        \* history: number of clock advances
    sndHist,       \* history: which fed packet each data slot holds, when the
                   \* first packet of the block was fed, the packets discarded
    snd,           \* SendGroup
    rcv_groups,    \* std::map<int32_t, RecvGroup>, as a function on its keys
    rcv_base,      \* first sequence number of receive block 0
    m_provided,    \* the provided queue (rebuilt packets)
    trSeq,         \* sequence number the transport gives the next source packet
    fed,           \* history: source packets passed to feedSource
    sndBlocks,     \* history: blocks whose parity the sender has computed
    packLog,       \* history: the packControlPacket calls and their results
    delivered,     \* history: the packets passed to receive
    nrecv,         \* history: number of receive calls
    srcAfterPar,   \* history: a source packet was received after a parity packet
    last,          \* history: the last receive call and what it returned
    first_ts,      \* history: per receive block, the timestamp of the first
                   \* of its shards that was passed to receive
    data_shards,     \* FECReedSolomon: k
    parity_shards,   \* FECReedSolomon: m
    receiver_groups, \* FECReedSolomon: unordered_map<uint32_t, FECGroup>
    last_cleanup,    \* FECReedSolomon: time of the last cleanup, seconds
    steady_now,      \* std::chrono::steady_clock::now(), seconds
    fec_ret,         \* history: the last FECReedSolomon::receive call
    fec_nrecv,       \* history: number of FECReedSolomon::receive calls
    receiver_mutex,  \* FECReedSolomon: 0 when free, else the thread holding it
    thr,             \* per thread: where it is in receive, with its packet
                     \* and the time it read on entry
    conf,            \* the configuration a construction is attempted with
    made,            \* what the construction attempt has produced
    codec            \* a run of rs_encode2 / rs_decode2 on an array of shards

\* the state of a FECReedSolomon instance
fecvars == <<data_shards, parity_shards, receiver_groups, last_cleanup,
             steady_now, fec_ret, fec_nrecv, receiver_mutex, thr>>

\* the state of an RSFecFilter instance and of its loopback wire
rsvars == <<m_k, m_m, m_timeout_us, now, nticks, sndHist, snd, rcv_groups, rcv_base, m_provided,
            trSeq, fed, sndBlocks, packLog, delivered, nrecv, srcAfterPar, last,
            first_ts>>

\* a construction attempt
ctorvars == <<conf, made>>

vars == <<rsvars, fecvars, ctorvars, codec>>

NoPkt == [seq |-> SRT_SEQNO_NONE, ts |-> 0, ctl |-> FALSE, data |-> ZeroShard]

\* the last receive call: its packet, what it returned, where it placed the
\* packet and how the decoder answered ("none", "ok", "fail")
NoCall == [val |-> FALSE, pkt |-> NoPkt,
           gbase |-> SRT_SEQNO_NONE, idx |-> -1, dec |-> "none"]

\* SrtPacket(payloadSize()): header zeroed
EmptySrtPacket == [seq |-> 0, ts |-> 0, data |-> ZeroShard]

\* SendGroup(): base(SRT_SEQNO_NONE), collected(0), next_parity(0); the
\* constructor of the filter sizes data and parity.
InitSnd(k, m) ==
    [base |-> SRT_SEQNO_NONE,
     data |-> [i \in 1..k |-> ZeroShard],
     collected |-> 0,
     parity |-> [p \in 1..m |-> EmptySrtPacket],
     next_parity |-> 0,
     start |-> 0]

\* the last FECReedSolomon::receive call: what it returned and the source
\* line of the return statement it left through (0: no call yet)
NoFecCall == [val |-> FALSE, site |-> 0]

\* the threads that may call FECReedSolomon::receive
Threads == {1, 2}

\* a thread outside receive
IdleThread == [pc |-> "idle", pkt |-> <<>>, now |-> 0]

\* FECReedSolomon::FECReedSolomon with cols = k and rows = m
FecConstructed(k, m) ==
    /\ receiver_mutex = 0
    /\ thr = [t \in Threads |-> IdleThread]
    /\ data_shards = k
    /\ parity_shards = m
    /\ receiver_groups = <<>>
    /\ last_cleanup = 0
    /\ steady_now = 0
    /\ fec_ret = NoFecCall
    /\ fec_nrecv = 0

\* no data slot written, nothing discarded
InitSndHist(k) == [src |-> [i \in 1..k |-> 0], first_at |-> 0, discarded |-> {}]

\* no construction attempt under study
NoConf == [k |-> 0, m |-> 0, has_timeout |-> FALSE, timeout |-> 0]
NoFilter == [outcome |-> "none", m_k |-> 0, m_m |-> 0, m_timeout_us |-> 0]
NoAttempt == conf = NoConf /\ made = NoFilter

\* a null shard pointer
nullptr == <<>>

\* no codec run under study
NoCodecRun ==
    codec = [phase |-> "idle", k |-> 0, m |-> 0, orig |-> <<>>, shards |-> <<>>,
             missing |-> {}, ret |-> 0]

\* RSFecFilter::RSFecFilter with a configuration verifyConfig accepts
Init ==
    /\ m_k \in 1..MaxK
    /\ m_m \in 1..MaxM
    /\ m_timeout_us = 0
    /\ now = 1
    /\ nticks = 0
    /\ sndHist = InitSndHist(m_k)
    /\ snd = InitSnd(m_k, m_m)
    /\ rcv_groups = <<>>
    /\ rcv_base = incseq(rcvISN, 1)
    /\ m_provided = <<>>
    /\ trSeq \in {rcv_base - 1, rcv_base}
    /\ fed = <<>>
    /\ sndBlocks = <<>>
    /\ packLog = <<>>
    /\ delivered = {}
    /\ nrecv = 0
    /\ srcAfterPar = FALSE
    /\ last = NoCall
    /\ first_ts = <<>>
    /\ FecConstructed(1, 1)
    /\ NoAttempt
    /\ NoCodecRun

\* ------------------------------------------------------------ send side
\* column j of the k data shards
Column(data, j) == [i \in 1..Len(data) |-> data[i][j]]

\* lines 90-103: parity packets of the full block
ComputeParity(s, pkt) ==
    [p \in 1..m_m |->
        [seq |-> incseq(s.base, m_k + (p - 1)),
         ts |-> pkt.ts,
         data |-> [j \in 1..payloadSize |->
                       encode_rs_char(Column(s.data, j), m_m)[p]]]]

\* feedSource counting a packet it has no slot for
FeedSourceResult_NoBound(s, pkt) ==
    LET s1 == IF s.collected = 0
              THEN [s EXCEPT !.base = pkt.seq, !.start = now]
              ELSE s
        s2 == IF s1.collected < Len(s1.data)
              THEN [s1 EXCEPT !.data[s1.collected + 1] = pkt.data,
                              !.collected = s1.collected + 1]
              ELSE [s1 EXCEPT !.collected = s1.collected + 1]
    IN  IF s2.collected = m_k
        THEN [s2 EXCEPT !.parity = ComputeParity(s2, pkt),
                        !.next_parity = 0,
                        !.start = 0]
        ELSE s2

\* RSFecFilter::feedSource
FeedSourceResult(s, pkt) ==
    LET s1 == IF s.collected = 0
              THEN [s EXCEPT !.base = pkt.seq, !.start = now]
              ELSE s
        s2 == IF s1.collected < Len(s1.data)
              THEN [s1 EXCEPT !.data[s1.collected + 1] = pkt.data,
                              !.collected = s1.collected + 1]
              ELSE s1
    IN  IF s2.collected = m_k
        THEN [s2 EXCEPT !.parity = ComputeParity(s2, pkt),
                        !.next_parity = 0,
                        !.start = 0]
        ELSE s2

feedSource(pkt) ==
    /\ Len(fed) < MaxFeed
    /\ snd' = FeedSourceResult(snd, pkt)
    /\ trSeq' = incseq(pkt.seq, 1)
    /\ fed' = Append(fed, pkt)
    /\ sndHist' = IF snd.collected < Len(snd.data)
                  THEN [sndHist EXCEPT
                          !.src[snd.collected + 1] = Len(fed) + 1,
                          !.first_at = IF snd.collected = 0 THEN now ELSE @]
                  ELSE sndHist
    /\ sndBlocks' = IF snd.collected = m_k - 1
                    THEN Append(sndBlocks, [base |-> snd'.base,
                                            data |-> snd'.data,
                                            parity |-> snd'.parity,
                                            src |-> sndHist'.src])
                    ELSE sndBlocks
    /\ UNCHANGED <<m_k, m_m, m_timeout_us, now, nticks, rcv_groups, rcv_base,
                   m_provided, packLog, delivered, nrecv, srcAfterPar, last,
                   first_ts>>

\* RSFecFilter::packControlPacket
packControlPacket ==
    /\ Len(packLog) < MaxPack
    /\ IF snd.collected < m_k
       THEN /\ snd' = IF /\ m_timeout_us > 0
                         /\ snd.start # 0
                         /\ count_microseconds_ge(now - snd.start, m_timeout_us)
                      THEN [snd EXCEPT !.collected = 0, !.start = 0]
                      ELSE snd
            /\ packLog' = Append(packLog, [blk |-> Len(sndBlocks), val |-> FALSE, pkt |-> NoPkt,
                                           pre |-> snd.collected,
                                           post |-> snd'.collected])
       ELSE IF snd.next_parity >= Len(snd.parity)
       THEN /\ snd' = [snd EXCEPT !.collected = 0, !.start = 0]
            /\ packLog' = Append(packLog, [blk |-> Len(sndBlocks), val |-> FALSE, pkt |-> NoPkt,
                                           pre |-> snd.collected,
                                           post |-> 0])
       ELSE LET sp == snd.parity[snd.next_parity + 1]
                pkt == [seq |-> sp.seq, ts |-> sp.ts, ctl |-> TRUE,
                        data |-> sp.data]
            IN  /\ snd' = [snd EXCEPT !.next_parity = snd.next_parity + 1]
                            /\ packLog' = Append(packLog, [blk |-> Len(sndBlocks), val |-> TRUE, pkt |-> pkt,
                                               pre |-> snd.collected,
                                               post |-> snd.collected])
    /\ sndHist' = IF snd.collected < m_k /\ snd'.collected = 0
                  THEN [sndHist EXCEPT
                          !.discarded = @ \cup {sndHist.src[i] : i \in 1..snd.collected}]
                  ELSE sndHist
    /\ UNCHANGED <<m_k, m_m, m_timeout_us, now, nticks, rcv_groups, rcv_base,
                   m_provided, trSeq, fed, sndBlocks, delivered, nrecv, srcAfterPar, last,
                   first_ts>>

\* --------------------------------------------------------- receive side
\* RecvGroup as receive initialises it on first use (lines 151-157)
NewGroup(gbase) ==
    [base |-> gbase,
     data |-> [i \in 1..m_k |-> ZeroShard],
     have_data |-> [i \in 1..m_k |-> FALSE],
     parity |-> [p \in 1..m_m |-> ZeroShard],
     have_parity |-> [p \in 1..m_m |-> FALSE],
     have_count |-> 0,
     timestamp |-> 0,
     ts_set |-> FALSE]

\* lines 142-148: offset from rcv_base, block base and index within the block
\* the offset taken without its sign
Off_Unsigned(pkt) == Abs(seqoff(rcv_base, pkt.seq))

Off(pkt) == seqoff(rcv_base, pkt.seq)
GrpIdx(pkt) == Off(pkt) \div (m_k + m_m)
Idx(pkt) == Off(pkt) % (m_k + m_m)
GBase(pkt) == incseq(rcv_base, GrpIdx(pkt) * (m_k + m_m))

\* Stored counting a shard the group already holds
Stored_CountsDuplicates(groups, pkt) ==
    LET gbase == GBase(pkt)
        idx == Idx(pkt)
        g0 == IF gbase \in DOMAIN groups THEN groups[gbase] ELSE NewGroup(gbase)
        g1 == IF ~g0.ts_set
              THEN [g0 EXCEPT !.timestamp = pkt.ts, !.ts_set = TRUE]
              ELSE g0
    IN  IF idx < m_k
        THEN [g1 EXCEPT !.data[idx + 1] = pkt.data,
                        !.have_data[idx + 1] = TRUE,
                        !.have_count = g1.have_count + 1]
        ELSE IF (idx - m_k) < m_m
             THEN [g1 EXCEPT !.parity[(idx - m_k) + 1] = pkt.data,
                             !.have_parity[(idx - m_k) + 1] = TRUE,
                             !.have_count = g1.have_count + 1]
             ELSE g1

\* lines 150-181: the group after the packet has been looked up and stored
Stored(groups, pkt) ==
    LET gbase == GBase(pkt)
        idx == Idx(pkt)
        g0 == IF gbase \in DOMAIN groups THEN groups[gbase] ELSE NewGroup(gbase)
        g1 == IF ~g0.ts_set
              THEN [g0 EXCEPT !.timestamp = pkt.ts, !.ts_set = TRUE]
              ELSE g0
    IN  IF idx < m_k
        THEN IF ~g1.have_data[idx + 1]
             THEN [g1 EXCEPT !.data[idx + 1] = pkt.data,
                             !.have_data[idx + 1] = TRUE,
                             !.have_count = g1.have_count + 1]
             ELSE g1
        ELSE IF (idx - m_k) < m_m /\ ~g1.have_parity[(idx - m_k) + 1]
             THEN [g1 EXCEPT !.parity[(idx - m_k) + 1] = pkt.data,
                             !.have_parity[(idx - m_k) + 1] = TRUE,
                             !.have_count = g1.have_count + 1]
             ELSE g1

RECURSIVE SortedSeq(_)
SortedSeq(S) ==
    IF S = {} THEN <<>>
    ELSE LET x == CHOOSE y \in S : \A z \in S : y <= z
         IN  <<x>> \o SortedSeq(S \ {x})

\* lines 185-188: 0-based indices of the missing source shards
Miss(g) == {i \in 0..(m_k - 1) : ~g.have_data[i + 1]}

\* lines 190-197: erasure positions, missing data and missing parity
Eras(g) == Miss(g) \cup {m_k + p : p \in {q \in 0..(m_m - 1) : ~g.have_parity[q + 1]}}

\* lines 190-197: the erasure vector in the order it is built, missing
\* source indices first and then the missing parity positions
ErasList(g) ==
    SortedSeq(Miss(g))
        \o SortedSeq({m_k + p : p \in {q \in 0..(m_m - 1) : ~g.have_parity[q + 1]}})

\* DecodeDue without the have_count test of line 183
DecodeDue_NoCountCheck(g) ==
    /\ Miss(g) # {}
    /\ Cardinality(Miss(g)) <= m_m

\* DecodeDue without the capacity conditions of lines 183 and 189
DecodeDue_NoCapacity(g) == Miss(g) # {}

\* lines 183, 189: the decoder runs
DecodeDue(g) ==
    /\ g.have_count >= m_k
    /\ Miss(g) # {}
    /\ Cardinality(Miss(g)) <= m_m

\* lines 199-204: column j handed to the decoder, absent shards zeroed
DecodeColumn(g, j) ==
    [i \in 1..(m_k + m_m) |->
        IF i <= m_k
        THEN (IF g.have_data[i] THEN g.data[i][j] ELSE 0)
        ELSE (IF g.have_parity[i - m_k] THEN g.parity[i - m_k][j] ELSE 0)]

RECURSIVE OutcomeSeqs(_, _)
\* the decoder's possible answers for columns 1..j
OutcomeSeqs(g, j) ==
    IF j = 0 THEN {<<>>}
    ELSE {Append(s, o) : s \in OutcomeSeqs(g, j - 1),
                         o \in decode_rs_char(DecodeColumn(g, j), Eras(g), m_k, m_m)}

\* lines 200-218: all columns up to j decoded without failure
DecodedUpTo(outs, j) == \A c \in 1..j : outs[c].res >= 0

\* lines 209-217: the data shards after the column loop (it stops at the
\* first column the decoder fails on)
DecodedData(g, outs) ==
    [i \in 1..m_k |->
        IF (i - 1) \in Miss(g)
        THEN [j \in 1..payloadSize |->
                 IF DecodedUpTo(outs, j) THEN outs[j].col[i] ELSE g.data[i][j]]
        ELSE g.data[i]]

\* lines 220-229: the rebuilt packets, in increasing index order
Rebuilt(g, data) ==
    LET miss == SortedSeq(Miss(g))
    IN  [n \in 1..Len(miss) |->
            [seq |-> incseq(g.base, miss[n]),
             ts |-> g.timestamp,
             data |-> data[miss[n] + 1]]]

\* the map without key b (std::map::erase)
Erase(groups, b) == [x \in DOMAIN groups \ {b} |-> groups[x]]

\* the map with key b bound to g (operator[] followed by assignment)
Put(groups, b, g) == [x \in DOMAIN groups \cup {b} |-> IF x = b THEN g ELSE groups[x]]

\* RSFecFilter::receive as a function of the receive state, the packet and
\* the decoder's answers outs (one per column, used when the decoder runs)
ReceiveResult(groups, provided, pkt, outs) ==
    LET gbase == GBase(pkt)
        idx == Idx(pkt)
        g == Stored(groups, pkt)
    IN  IF Off(pkt) < 0
        THEN [groups |-> groups, provided |-> provided, val |-> TRUE,
              gbase |-> SRT_SEQNO_NONE, idx |-> -1, dec |-> "none"]
        ELSE IF idx < m_k
        THEN [groups |-> Put(groups, gbase, g), provided |-> provided,
              val |-> TRUE, gbase |-> gbase, idx |-> idx, dec |-> "none"]
        ELSE LET g2 == IF DecodeDue(g)
                       THEN [g EXCEPT !.data = DecodedData(g, outs),
                                      !.have_data = [i \in 1..m_k |-> TRUE]]
                       ELSE g
                 prov2 == IF DecodeDue(g)
                          THEN provided \o Rebuilt(g, DecodedData(g, outs))
                          ELSE provided
                 all == \A i \in 1..m_k : g2.have_data[i]
             IN  [groups |-> IF g.have_count >= m_k /\ all
                             THEN Erase(groups, gbase)
                             ELSE Put(groups, gbase, g2),
                  provided |-> prov2, val |-> FALSE,
                  gbase |-> gbase, idx |-> idx,
                  dec |-> IF ~DecodeDue(g) THEN "none"
                          ELSE IF DecodedUpTo(outs, payloadSize) THEN "ok"
                          ELSE "fail"]

\* the decoder answers receive may get for this packet
DecoderAnswers(groups, pkt) ==
    IF Off(pkt) >= 0 /\ Idx(pkt) >= m_k /\ DecodeDue(Stored(groups, pkt))
    THEN OutcomeSeqs(Stored(groups, pkt), payloadSize)
    ELSE {<<>>}

\* receive with a side effect on the send block
receive_ResetsSend(pkt) ==
    /\ nrecv < MaxRecv
    /\ \E outs \in DecoderAnswers(rcv_groups, pkt) :
         LET r == ReceiveResult(rcv_groups, m_provided, pkt, outs)
         IN  /\ rcv_groups' = r.groups
             /\ m_provided' = r.provided
             /\ last' = [val |-> r.val, pkt |-> pkt,
                         gbase |-> r.gbase, idx |-> r.idx, dec |-> r.dec]
    /\ delivered' = delivered \cup {pkt}
    /\ nrecv' = nrecv + 1
    /\ srcAfterPar' = (srcAfterPar \/ (~pkt.ctl /\ \E d \in delivered : d.ctl))
    /\ first_ts' = IF Off(pkt) >= 0 /\ GBase(pkt) \notin DOMAIN first_ts
                   THEN Put(first_ts, GBase(pkt), pkt.ts)
                   ELSE first_ts
    /\ snd' = [snd EXCEPT !.collected = 0]
    /\ UNCHANGED <<m_k, m_m, m_timeout_us, now, nticks, sndHist, rcv_base,
                   trSeq, fed, sndBlocks, packLog>>

\* one call of RSFecFilter::receive: its effect on the receive side
receiveCall(pkt) ==
    /\ \E outs \in DecoderAnswers(rcv_groups, pkt) :
         LET r == ReceiveResult(rcv_groups, m_provided, pkt, outs)
         IN  /\ rcv_groups' = r.groups
             /\ m_provided' = r.provided
             /\ last' = [val |-> r.val, pkt |-> pkt,
                         gbase |-> r.gbase, idx |-> r.idx, dec |-> r.dec]
    /\ delivered' = delivered \cup {pkt}
    /\ nrecv' = nrecv + 1
    /\ srcAfterPar' = (srcAfterPar \/ (~pkt.ctl /\ \E d \in delivered : d.ctl))
    /\ first_ts' = IF Off(pkt) >= 0 /\ GBase(pkt) \notin DOMAIN first_ts
                   THEN Put(first_ts, GBase(pkt), pkt.ts)
                   ELSE first_ts

receive(pkt) ==
    /\ nrecv < MaxRecv
    /\ receiveCall(pkt)
    /\ UNCHANGED <<m_k, m_m, m_timeout_us, now, nticks, sndHist, snd, rcv_base,
                   trSeq, fed, sndBlocks, packLog>>

\* ------------------------------------------------------------ behaviours
\* the transport numbers source packets consecutively; the test fixture
\* leaves room for the parity sequence numbers between two blocks
NextSeqs ==
    {trSeq} \cup (IF snd.collected = 0 /\ fed # <<>> THEN {incseq(trSeq, m_m)} ELSE {})

\* the source packets of the test fixture: packet number i (from 0) is
\* filled with byte i + 1 and stamped 10 * (i + 1)
FixtureShard(i) == [j \in 1..payloadSize |-> (i % MaxByte) + 1]

SourcePkt(seq) ==
    [seq |-> seq, ts |-> 10 * (Len(fed) + 1), ctl |-> FALSE,
     data |-> FixtureShard(Len(fed))]

\* the packets on the wire: every source packet the transport has sent and
\* every parity packet packControlPacket has supplied
net ==
    {fed[i] : i \in 1..Len(fed)} \cup
    {packLog[i].pkt : i \in {n \in 1..Len(packLog) : packLog[n].val}}

DoFeed ==
    /\ \E seq \in NextSeqs : feedSource(SourcePkt(seq))
    /\ UNCHANGED <<fecvars, ctorvars, codec>>

DoPack == packControlPacket /\ UNCHANGED <<fecvars, ctorvars, codec>>

DoReceive ==
    /\ \E pkt \in net : receive(pkt)
    /\ UNCHANGED <<fecvars, ctorvars, codec>>

Next == DoFeed \/ DoPack \/ DoReceive

Spec == Init /\ [][Next]_vars

\* ------------------------------------------- FECReedSolomon (fec_rs.cpp)
\* A packet is [ctl, data]: the control mark of the SRT header and the
\* bytes of the payload area (m_pcData, getLength() = Len(data)).

\* htonl + memcpy: the four bytes of a 32-bit word, most significant first
BE32(w) == <<w.hi \div 256, w.hi % 256, w.lo \div 256, w.lo % 256>>

\* ntohl(*(uint32_t*)(m_pcData + off))
Word(data, off) ==
    [hi |-> data[off + 1] * 256 + data[off + 2],
     lo |-> data[off + 3] * 256 + data[off + 4]]

\* a | b of two words with no bit in common
BitOr(a, b) == [hi |-> a.hi + b.hi, lo |-> a.lo + b.lo]

\* [group_seq:16][shard_index:8][flags:8]
FecHeader(group_seq, parity_index, k) ==
    [hi |-> group_seq % 65536, lo |-> (parity_index % 256) * 256 + (k % 256)]

\* createFECPacket writing the parity count into the flags byte
createFECPacket_ParityCount(parity_index, parity_data, group_seq) ==
    BE32(BitOr(FEC_CTRL_FLAG, FEC_SUBTYPE))
        \o BE32(FecHeader(group_seq, parity_index, parity_shards))
        \o parity_data

\* FECReedSolomon::createFECPacket: the bytes of the parity packet
createFECPacket(parity_index, parity_data, group_seq) ==
    BE32(BitOr(FEC_CTRL_FLAG, FEC_SUBTYPE))
        \o BE32(FecHeader(group_seq, parity_index, data_shards))
        \o parity_data

\* w & 0xFFFF0000
MaskHigh16(w) == [hi |-> w.hi, lo |-> 0]

\* FECGroup::FECGroup: no shard present; a shard slot is {} or {bytes}
NewFECGroup(group_seq) ==
    [shards |-> [i \in 1..(data_shards + parity_shards) |-> {}],
     received_count |-> 0,
     max_shard_size |-> 0,
     creation_time |-> steady_now,
     group_seq |-> group_seq,
     base_seq |-> group_seq * data_shards]

\* FECGroup::isExpired
isExpired(g, timeout) == (steady_now - g.creation_time) > timeout

\* FECReedSolomon::cleanupOldGroups: the tables it can leave.  min_element
\* over an unordered_map takes any of the groups of least creation_time.
cleanupOldGroups(groups) ==
    IF steady_now - last_cleanup < CleanupPeriod
    THEN {groups}
    ELSE LET live == {x \in DOMAIN groups : ~isExpired(groups[x], GROUP_TIMEOUT)}
         IN  IF Cardinality(live) <= MAX_GROUPS
             THEN {[x \in live |-> groups[x]]}
             ELSE {[x \in K |-> groups[x]] :
                     K \in {S \in SUBSET live :
                              /\ Cardinality(S) = MAX_GROUPS
                              /\ \A r \in live \ S : \A x \in S :
                                    groups[r].creation_time <= groups[x].creation_time}}

\* receive without the comparison of the k echo with data_shards
FecReceiveResult_NoKCheck(groups, pkt) ==
    IF ~pkt.ctl
    THEN [groups |-> groups, val |-> FALSE, site |-> 300]
    ELSE IF Len(pkt.data) < FEC_HEADER_SIZE
    THEN [groups |-> groups, val |-> FALSE, site |-> 304]
    ELSE IF MaskHigh16(Word(pkt.data, 0)) # BitOr(FEC_CTRL_FLAG, FEC_SUBTYPE)
    THEN [groups |-> groups, val |-> FALSE, site |-> 310]
    ELSE LET fec_header == Word(pkt.data, 4)
             group_seq == fec_header.hi % 65536
             shard_index == (fec_header.lo \div 256) % 256
             data_shards_count == fec_header.lo % 256
             payload == SubSeq(pkt.data, FEC_HEADER_SIZE + 1, Len(pkt.data))
             group == IF group_seq \in DOMAIN groups
                      THEN groups[group_seq]
                      ELSE NewFECGroup(group_seq)
             parity_shard_index == data_shards + shard_index
             stored == IF group.shards[parity_shard_index + 1] = {}
                       THEN [group EXCEPT
                               !.shards[parity_shard_index + 1] = {payload},
                               !.received_count = group.received_count + 1,
                               !.max_shard_size =
                                   IF Len(payload) > group.max_shard_size
                                   THEN Len(payload)
                                   ELSE group.max_shard_size]
                       ELSE group
         IN  IF shard_index >= parity_shards
             THEN [groups |-> groups, val |-> FALSE, site |-> 322]
             ELSE IF FALSE
             THEN [groups |-> groups, val |-> FALSE, site |-> 329]
             ELSE [groups |-> Put(groups, group_seq, stored),
                   val |-> FALSE, site |-> 359]

\* lines 298-359 of FECReedSolomon::receive on the table cleanup has left:
\* the new table, the value returned and the line of the return statement
FecReceiveResult(groups, pkt) ==
    IF ~pkt.ctl
    THEN [groups |-> groups, val |-> FALSE, site |-> 300]
    ELSE IF Len(pkt.data) < FEC_HEADER_SIZE
    THEN [groups |-> groups, val |-> FALSE, site |-> 304]
    ELSE IF MaskHigh16(Word(pkt.data, 0)) # BitOr(FEC_CTRL_FLAG, FEC_SUBTYPE)
    THEN [groups |-> groups, val |-> FALSE, site |-> 310]
    ELSE LET fec_header == Word(pkt.data, 4)
             group_seq == fec_header.hi % 65536
             shard_index == (fec_header.lo \div 256) % 256
             data_shards_count == fec_header.lo % 256
             payload == SubSeq(pkt.data, FEC_HEADER_SIZE + 1, Len(pkt.data))
             group == IF group_seq \in DOMAIN groups
                      THEN groups[group_seq]
                      ELSE NewFECGroup(group_seq)
             parity_shard_index == data_shards + shard_index
             stored == IF group.shards[parity_shard_index + 1] = {}
                       THEN [group EXCEPT
                               !.shards[parity_shard_index + 1] = {payload},
                               !.received_count = group.received_count + 1,
                               !.max_shard_size =
                                   IF Len(payload) > group.max_shard_size
                                   THEN Len(payload)
                                   ELSE group.max_shard_size]
                       ELSE group
         IN  IF shard_index >= parity_shards
             THEN [groups |-> groups, val |-> FALSE, site |-> 322]
             ELSE IF data_shards_count # data_shards
             THEN [groups |-> groups, val |-> FALSE, site |-> 329]
             ELSE [groups |-> Put(groups, group_seq, stored),
                   val |-> FALSE, site |-> 359]

\* FECReedSolomon::receive
fecReceive(pkt) ==
    /\ fec_nrecv < MaxFecRecv
    /\ \E cleaned \in cleanupOldGroups(receiver_groups) :
         LET r == FecReceiveResult(cleaned, pkt)
         IN  /\ receiver_groups' = r.groups
             /\ fec_ret' = [val |-> r.val, site |-> r.site]
    /\ last_cleanup' = IF steady_now - last_cleanup < CleanupPeriod
                       THEN last_cleanup
                       ELSE steady_now
    /\ fec_nrecv' = fec_nrecv + 1
    /\ UNCHANGED <<data_shards, parity_shards, steady_now, receiver_mutex, thr>>

\* the packets the network can bring: well-formed parity packets of the
\* groups 0..MAX_GROUPS, parity packets with a parity index or a k echo the
\* receiver is not configured for, control packets of another subtype or
\* too short for a FEC header, and source data packets
FecWords == {BitOr(FEC_CTRL_FLAG, FEC_SUBTYPE),
             [hi |-> FEC_CTRL_FLAG.hi + FEC_SUBTYPE.hi, lo |-> 1],
             [hi |-> FEC_CTRL_FLAG.hi + FEC_SUBTYPE.hi - 1, lo |-> 0]}

FecFrame(w, g, idx, k) == BE32(w) \o BE32(FecHeader(g, idx, k)) \o <<idx + 1>>

FecInputs ==
    {[ctl |-> TRUE, data |-> FecFrame(BitOr(FEC_CTRL_FLAG, FEC_SUBTYPE), g, idx, k)] :
        g \in 0..MAX_GROUPS, idx \in 0..MaxM, k \in 1..MaxK}
    \cup {[ctl |-> c, data |-> FecFrame(w, 0, 0, k)] :
        c \in BOOLEAN, w \in FecWords, k \in 1..MaxK}
    \cup {[ctl |-> c, data |-> BE32(BitOr(FEC_CTRL_FLAG, FEC_SUBTYPE))] : c \in BOOLEAN}

DoFecReceive ==
    /\ \E pkt \in FecInputs : fecReceive(pkt)
    /\ UNCHANGED <<rsvars, ctorvars, codec>>

\* the steady clock advances between two calls
Tick ==
    /\ steady_now < MaxClock
    /\ steady_now' = steady_now + 1
    /\ UNCHANGED <<data_shards, parity_shards, receiver_groups, last_cleanup,
                   fec_ret, fec_nrecv, receiver_mutex, thr>>
    /\ UNCHANGED <<rsvars, ctorvars, codec>>

\* an idle RSFecFilter beside the FECReedSolomon instance under study
RSFecIdle ==
    /\ m_k = 1
    /\ m_m = 1
    /\ m_timeout_us = 0
    /\ now = 1
    /\ nticks = 0
    /\ sndHist = InitSndHist(1)
    /\ snd = InitSnd(1, 1)
    /\ rcv_groups = <<>>
    /\ rcv_base = incseq(rcvISN, 1)
    /\ m_provided = <<>>
    /\ trSeq = rcv_base
    /\ fed = <<>>
    /\ sndBlocks = <<>>
    /\ packLog = <<>>
    /\ delivered = {}
    /\ nrecv = 0
    /\ srcAfterPar = FALSE
    /\ last = NoCall
    /\ first_ts = <<>>

InitFec ==
    /\ RSFecIdle
    /\ NoAttempt
    /\ NoCodecRun
    /\ \E k \in 1..MaxK : \E m \in 1..MaxM : FecConstructed(k, m)

NextFec == DoFecReceive \/ Tick

SpecFec == InitFec /\ [][NextFec]_vars

\* ------------------------------- FECReedSolomon::receive, two threads
\* receive called from two threads at once, one step per access to shared
\* state.  A thread is at "check" (line 256), "cleanup_lock" (261),
\* "expire" (263-271), "limit" (274-287), "parse" (298-336), "recv_lock"
\* (338), "lookup" (341-345) or "store" (348-359).
MaxThreadCalls == 4   \* receive calls per behaviour, over both threads

\* the packets the threads are called with: parity packets of the groups
\* 0..MAX_GROUPS and a source data packet
ThreadInputs ==
    {[ctl |-> TRUE, data |-> createFECPacket(0, <<1>>, g)] : g \in 0..MAX_GROUPS}
    \cup {[ctl |-> FALSE, data |-> BE32(BitOr(FEC_CTRL_FLAG, FEC_SUBTYPE))]}

\* group_seq of a parity packet (line 315)
GroupSeqOf(pkt) == Word(pkt.data, 4).hi % 65536

\* lines 274-285: the tables the size limit can leave
LimitGroups(groups) ==
    IF Cardinality(DOMAIN groups) <= MAX_GROUPS
    THEN {groups}
    ELSE {[x \in K |-> groups[x]] :
            K \in {S \in SUBSET DOMAIN groups :
                     /\ Cardinality(S) = MAX_GROUPS
                     /\ \A r \in (DOMAIN groups) \ S : \A x \in S :
                           groups[r].creation_time <= groups[x].creation_time}}

\* thread t moves to pc
Goto(t, pc) == thr' = [thr EXCEPT ![t].pc = pc]

\* a thread calls receive(pkt)
Enter(t) ==
    /\ thr[t].pc = "idle"
    /\ fec_nrecv < MaxThreadCalls
    /\ fec_nrecv' = fec_nrecv + 1
    /\ \E pkt \in ThreadInputs :
          thr' = [thr EXCEPT ![t] = [pc |-> "check", pkt |-> pkt, now |-> 0]]
    /\ UNCHANGED <<data_shards, parity_shards, receiver_groups, last_cleanup,
                   steady_now, fec_ret, receiver_mutex>>

\* lines 256-259: cleanupOldGroups reads the clock and last_cleanup
Check(t) ==
    /\ thr[t].pc = "check"
    /\ thr' = [thr EXCEPT ![t].now = steady_now,
                          ![t].pc = IF steady_now - last_cleanup < CleanupPeriod
                                    THEN "parse" ELSE "cleanup_lock"]
    /\ UNCHANGED <<data_shards, parity_shards, receiver_groups, last_cleanup,
                   steady_now, fec_ret, fec_nrecv, receiver_mutex>>

\* line 261: ScopedLock lock(receiver_mutex)
CleanupLock(t) ==
    /\ thr[t].pc = "cleanup_lock"
    /\ receiver_mutex = 0
    /\ receiver_mutex' = t
    /\ Goto(t, "expire")
    /\ UNCHANGED <<data_shards, parity_shards, receiver_groups, last_cleanup,
                   steady_now, fec_ret, fec_nrecv>>

\* lines 263-271: erase the expired groups
Expire(t) ==
    /\ thr[t].pc = "expire"
    /\ receiver_groups' =
          [x \in {y \in DOMAIN receiver_groups :
                    ~isExpired(receiver_groups[y], GROUP_TIMEOUT)} |->
              receiver_groups[x]]
    /\ Goto(t, "limit")
    /\ UNCHANGED <<data_shards, parity_shards, last_cleanup, steady_now, fec_ret,
                   fec_nrecv, receiver_mutex>>

\* lines 274-288: limit the table, set last_cleanup, leave the lock's scope
Limit(t) ==
    /\ thr[t].pc = "limit"
    /\ receiver_groups' \in LimitGroups(receiver_groups)
    /\ last_cleanup' = thr[t].now
    /\ receiver_mutex' = IF receiver_mutex = t THEN 0 ELSE receiver_mutex
    /\ Goto(t, "parse")
    /\ UNCHANGED <<data_shards, parity_shards, steady_now, fec_ret, fec_nrecv>>

\* lines 298-336: classify the packet and parse the header
Parse(t) ==
    /\ thr[t].pc = "parse"
    /\ LET site == FecReceiveResult(<<>>, thr[t].pkt).site
       IN  IF site = 359
           THEN Goto(t, "recv_lock") /\ UNCHANGED fec_ret
           ELSE /\ thr' = [thr EXCEPT ![t] = IdleThread]
                /\ fec_ret' = [val |-> FALSE, site |-> site]
    /\ UNCHANGED <<data_shards, parity_shards, receiver_groups, last_cleanup,
                   steady_now, fec_nrecv, receiver_mutex>>

\* receive going on to the table without taking the lock
RecvLock_NoMutex(t) ==
    /\ thr[t].pc = "recv_lock"
    /\ Goto(t, "lookup")
    /\ UNCHANGED <<data_shards, parity_shards, receiver_groups, last_cleanup,
                   steady_now, fec_ret, fec_nrecv, receiver_mutex>>

\* line 338: ScopedLock lock(receiver_mutex)
RecvLock(t) ==
    /\ thr[t].pc = "recv_lock"
    /\ receiver_mutex = 0
    /\ receiver_mutex' = t
    /\ Goto(t, "lookup")
    /\ UNCHANGED <<data_shards, parity_shards, receiver_groups, last_cleanup,
                   steady_now, fec_ret, fec_nrecv>>

\* lines 341-345: get or create the group
Lookup(t) ==
    /\ thr[t].pc = "lookup"
    /\ LET g == GroupSeqOf(thr[t].pkt)
       IN  receiver_groups' =
               IF g \in DOMAIN receiver_groups THEN receiver_groups
               ELSE Put(receiver_groups, g, NewFECGroup(g))
    /\ Goto(t, "store")
    /\ UNCHANGED <<data_shards, parity_shards, last_cleanup, steady_now, fec_ret,
                   fec_nrecv, receiver_mutex>>

\* lines 348-359: store the parity shard, return, leave the lock's scope
Store(t) ==
    /\ thr[t].pc = "store"
    /\ LET r == FecReceiveResult(receiver_groups, thr[t].pkt)
       IN  /\ receiver_groups' = r.groups
           /\ fec_ret' = [val |-> r.val, site |-> r.site]
    /\ receiver_mutex' = IF receiver_mutex = t THEN 0 ELSE receiver_mutex
    /\ thr' = [thr EXCEPT ![t] = IdleThread]
    /\ UNCHANGED <<data_shards, parity_shards, last_cleanup, steady_now, fec_nrecv>>

ThreadStep ==
    /\ \E t \in Threads :
          \/ Enter(t) \/ Check(t) \/ CleanupLock(t) \/ Expire(t) \/ Limit(t)
          \/ Parse(t) \/ RecvLock(t) \/ Lookup(t) \/ Store(t)
    /\ UNCHANGED <<rsvars, ctorvars, codec>>

NextThreads == ThreadStep \/ Tick

\* FECReedSolomon::FECReedSolomon with cols = 1 and rows = 1
InitThreads ==
    /\ RSFecIdle
    /\ NoAttempt
    /\ NoCodecRun
    /\ FecConstructed(1, 1)

SpecThreads == InitThreads /\ [][NextThreads]_vars

\* ------------------------------------- construction of an RSFecFilter
\* RSFecFilter::verifyConfig on the integers atoi has read; the values it
\* can return.  k + m is an int addition: beyond INT_MAX its behaviour is
\* undefined and the comparison with 255 can come out either way.
verifyConfig(c) ==
    IF c.k <= 0 \/ c.m <= 0 THEN {FALSE}
    ELSE {~too_many /\ ~(c.has_timeout /\ c.timeout < 0) :
            too_many \in IF c.k > INT_MAX - c.m
                         THEN BOOLEAN
                         ELSE {c.k + c.m > 255}}

\* RSFecFilter::RSFecFilter: CUDTException(MJ_NOTSUP, MN_INVAL) when
\* verifyConfig rejects; otherwise the fields are set and the shard vectors
\* sized, which can end in std::bad_alloc when more shards are asked for
\* than a codeword has symbols.
Constructions(c) ==
    {[outcome |-> "ConfigError", m_k |-> 0, m_m |-> 0, m_timeout_us |-> 0] :
        ok \in {v \in verifyConfig(c) : ~v}}
    \cup
    {[outcome |-> o, m_k |-> c.k, m_m |-> c.m,
      m_timeout_us |-> IF c.has_timeout THEN Mul1000Int(c.timeout) ELSE 0] :
        o \in IF TRUE \in verifyConfig(c)
              THEN (IF c.k > 255 \/ c.m > 255
                    THEN {"created", "bad_alloc"}
                    ELSE {"created"})
              ELSE {}}

Construct ==
    /\ made.outcome = "none"
    /\ made' \in Constructions(conf)
    /\ UNCHANGED <<conf, rsvars, fecvars, codec>>

\* the configurations tried: the limits of the valid range, the example
\* k=200 with m=100, and the ends of the int range
ConfigInts == {-1, 0, 1, 2, 100, 200, 254, 255, INT_MAX}
ConfigTimeouts == {-1, 0, 100}

InitConfig ==
    /\ RSFecIdle
    /\ FecConstructed(1, 1)
    /\ NoCodecRun
    /\ made = NoFilter
    /\ conf \in [k : ConfigInts, m : ConfigInts, has_timeout : {TRUE},
                 timeout : ConfigTimeouts]
                \cup [k : ConfigInts, m : ConfigInts, has_timeout : {FALSE},
                      timeout : {0}]

NextConfig == Construct

SpecConfig == InitConfig /\ [][NextConfig]_vars

\* ------------------------------------- send side with a flush deadline
\* the timeouts configured, milliseconds: none, a short one and one whose
\* count of microseconds does not fit an int
TimeoutChoices == {0, 2, 3000000}

\* the steady clock advances between two calls, by a millisecond or by the
\* configured timeout
TickMs ==
    /\ nticks < MaxTicks
    /\ nticks' = nticks + 1
    /\ \E d \in {1} \cup ({conf.timeout} \ {0}) : now' = now + d
    /\ UNCHANGED <<m_k, m_m, m_timeout_us, sndHist, snd, rcv_groups, rcv_base,
                   m_provided, trSeq, fed, sndBlocks, packLog, delivered,
                   nrecv, srcAfterPar, last, first_ts>>
    /\ UNCHANGED <<fecvars, ctorvars, codec>>

\* RSFecFilter::RSFecFilter with k, parity and timeout given
InitTimeout ==
    /\ conf \in [k : 1..MaxK, m : 1..MaxM, has_timeout : {TRUE},
                 timeout : TimeoutChoices]
    /\ made \in {f \in Constructions(conf) : f.outcome = "created"}
    /\ m_k = made.m_k
    /\ m_m = made.m_m
    /\ m_timeout_us = made.m_timeout_us
    /\ now = 1
    /\ nticks = 0
    /\ sndHist = InitSndHist(m_k)
    /\ snd = InitSnd(m_k, m_m)
    /\ rcv_groups = <<>>
    /\ rcv_base = incseq(rcvISN, 1)
    /\ m_provided = <<>>
    /\ trSeq = rcv_base
    /\ fed = <<>>
    /\ sndBlocks = <<>>
    /\ packLog = <<>>
    /\ delivered = {}
    /\ nrecv = 0
    /\ srcAfterPar = FALSE
    /\ last = NoCall
    /\ first_ts = <<>>
    /\ FecConstructed(1, 1)
    /\ NoCodecRun

NextTimeout == DoFeed \/ DoPack \/ TickMs

SpecTimeout == InitTimeout /\ [][NextTimeout]_vars

\* --------------------------------- the in-repository codec (part_009)
\* a ^ b on non-negative integers
RECURSIVE Xor(_, _)
Xor(a, b) ==
    IF a = 0 THEN b
    ELSE IF b = 0 THEN a
    ELSE (((a % 2) + (b % 2)) % 2) + 2 * Xor(a \div 2, b \div 2)

GF_POLY == 285   \* 0x11d

\* GfNext reducing by x^8 + x^4 + x^3 + x + 1 instead of GF_POLY
GfNext_OtherPoly(x) == IF 2 * x >= 256 THEN Xor(2 * x, 283) ELSE 2 * x

\* gf_init, one round of the first loop: x <<= 1; if (x & 0x100) x ^= GF_POLY
GfNext(x) == IF 2 * x >= 256 THEN Xor(2 * x, GF_POLY) ELSE 2 * x

\* n rounds of the loop starting from x.  x is never negative: the test
\* has each round's value computed before the next round starts.
RECURSIVE GfRounds(_, _)
GfRounds(x, n) == IF n = 0 \/ x < 0 THEN x ELSE GfRounds(GfNext(x), n - 1)

\* 16 * b rounds, taken 16 at a time to keep the evaluation shallow
RECURSIVE GfBlocks(_, _)
GfBlocks(x, b) == IF b = 0 \/ x < 0 THEN x ELSE GfBlocks(GfRounds(x, 16), b - 1)

\* the value of x stored in gf_exp[i] by round i of the loop
GfPower == [i \in 0..254 |-> GfRounds(GfBlocks(1, i \div 16), i % 16)] @@ <<>>

\* the largest element of a non-empty set of integers
MaxOf(S) == CHOOSE x \in S : \A y \in S : y <= x

\* gf_init: the tables.  gf_exp[i] for i >= 255 is copied from
\* gf_exp[i - 255]; gf_log[x] holds the last i with gf_exp[i] = x, and the
\* entries the loop does not write keep the initial 0 of a static array.
RECURSIVE gf_exp(_)
gf_exp(i) == IF i < 255 THEN GfPower[i] ELSE gf_exp(i - 255)

gf_log ==
    [x \in 0..255 |->
        LET written == {i \in 0..254 : GfPower[i] = x}
        IN  IF written = {} THEN 0 ELSE MaxOf(written)] @@ <<>>

\* gf_mul without the test for a zero operand
gf_mul_NoZeroTest(a, b) == gf_exp(gf_log[a] + gf_log[b])

gf_mul(a, b) == IF a = 0 \/ b = 0 THEN 0 ELSE gf_exp(gf_log[a] + gf_log[b])

\* result ^= gf_mul(shards[d][pos], gf_exp((d * (p + 1)) % 255)) for
\* d = 0 .. n-1
RECURSIVE ParityByte(_, _, _, _)
ParityByte(shards, n, p, pos) ==
    IF n = 0 THEN 0
    ELSE Xor(ParityByte(shards, n - 1, p, pos),
             gf_mul(shards[n][pos], gf_exp(((n - 1) * (p + 1)) % 255)))

\* the parity shard p of the data shards shards[1..k]
ParityShard(shards, k, p, shard_len) ==
    [pos \in 1..shard_len |-> ParityByte(shards, k, p, pos)]

\* rs_encode2: the value returned and the array of shards afterwards
rs_encode2(n_data, n_total, shards, shard_len) ==
    IF n_total - n_data <= 0 \/ n_data <= 0
    THEN [ret |-> -1, shards |-> shards]
    ELSE [ret |-> 0,
          shards |-> [i \in 1..n_total |->
                        IF i <= n_data
                        THEN shards[i]
                        ELSE ParityShard(shards, n_data,
                                         i - 1 - n_data, shard_len)]]

\* lines 207-222: the xor of the first two data shards present
XorRecovery(shards, n_data, shard_len) ==
    LET present == {i \in 1..n_data : shards[i] # nullptr}
        first == IF present = {} THEN {}
                 ELSE {CHOOSE i \in present : \A j \in present : i <= j}
        second == IF present \ first = {} THEN {}
                  ELSE {CHOOSE i \in present \ first :
                           \A j \in present \ first : i <= j}
    IN  [pos \in 1..shard_len |->
            LET a == IF first = {} THEN 0
                     ELSE shards[CHOOSE i \in first : TRUE][pos]
                b == IF second = {} THEN 0
                     ELSE shards[CHOOSE i \in second : TRUE][pos]
            IN  Xor(a, b)]

\* rs_decode2: the value returned and the array of shards afterwards.  The
\* shards a branch fills in all point to the one static buffer of that
\* branch, so they all read as the shard written last.
rs_decode2(n_data, n_total, shards, shard_len) ==
    LET n_parity == n_total - n_data
        missing_indices == {i \in 1..n_total : shards[i] = nullptr}
        present_indices == {i \in 1..n_total : shards[i] # nullptr}
        missing_parity == {i \in missing_indices : i > n_data}
        missing_data == {i \in missing_indices : i <= n_data}
    IN  IF n_parity <= 0 \/ n_data <= 0
        THEN [ret |-> -1, shards |-> shards]
        ELSE IF missing_indices = {}
        THEN [ret |-> 0, shards |-> shards]
        ELSE IF Cardinality(missing_indices) > n_parity
        THEN [ret |-> -1, shards |-> shards]
        ELSE IF missing_data = {}
        THEN [ret |-> 0,
              shards |-> [i \in 1..n_total |->
                            IF i \in missing_parity
                            THEN ParityShard(shards, n_data,
                                             MaxOf(missing_parity) - 1 - n_data,
                                             shard_len)
                            ELSE shards[i]]]
        ELSE IF Cardinality(present_indices) >= n_data
        THEN [ret |-> 0,
              shards |-> [i \in 1..n_total |->
                            IF i \in missing_data
                            THEN XorRecovery(shards, n_data, shard_len)
                            ELSE shards[i]]]
        ELSE [ret |-> -1, shards |-> shards]

\* the bytes tried in source shards
CodecBytes == DataBytes \cup {255}

\* the caller fills k source shards and has rs_encode2 compute the parity
Encode ==
    /\ codec.phase = "filled"
    /\ LET r == rs_encode2(codec.k, codec.k + codec.m, codec.shards, payloadSize)
       IN  codec' = [codec EXCEPT !.phase = "encoded", !.shards = r.shards,
                                  !.ret = r.ret]
    /\ UNCHANGED <<rsvars, fecvars, ctorvars>>

\* up to m shards are lost: the caller marks them missing
Lose ==
    /\ codec.phase = "encoded"
    /\ \E E \in SUBSET (1..(codec.k + codec.m)) :
         /\ Cardinality(E) <= codec.m
         /\ codec' = [codec EXCEPT
                        !.phase = "lossy",
                        !.missing = E,
                        !.shards = [i \in 1..(codec.k + codec.m) |->
                                      IF i \in E THEN nullptr ELSE codec.shards[i]]]
    /\ UNCHANGED <<rsvars, fecvars, ctorvars>>

Decode ==
    /\ codec.phase = "lossy"
    /\ LET r == rs_decode2(codec.k, codec.k + codec.m, codec.shards, payloadSize)
       IN  codec' = [codec EXCEPT !.phase = "decoded", !.shards = r.shards,
                                  !.ret = r.ret]
    /\ UNCHANGED <<rsvars, fecvars, ctorvars>>

InitCodec ==
    /\ RSFecIdle
    /\ FecConstructed(1, 1)
    /\ NoAttempt
    /\ \E k \in 1..MaxK : \E m \in 1..MaxM :
         \E S \in [1..k -> [1..payloadSize -> CodecBytes]] :
            codec = [phase |-> "filled", k |-> k, m |-> m, orig |-> S,
                     shards |-> [i \in 1..(k + m) |->
                                   IF i <= k THEN S[i] ELSE ZeroShard],
                     missing |-> {}, ret |-> 0]

NextCodec == Encode \/ Lose \/ Decode

SpecCodec == InitCodec /\ [][NextCodec]_vars

\* ------------------------------------------ GF(256) arithmetic alone
\* gf_mul applied to every pair of bytes after gf_init.  The two bytes
\* also serve as the two table positions a statement about gf_exp and
\* gf_log is read at.
\* lines 52-54: the entries of gf_log that gf_mul(a, b) reads
GfMulReads(a, b) == IF a = 0 \/ b = 0 THEN {} ELSE {a, b}

\* line 54: the entry of gf_exp that gf_mul(a, b) reads, -1 for none
GfMulIndex(a, b) == IF a = 0 \/ b = 0 THEN -1 ELSE gf_log[a] + gf_log[b]

\* one call of gf_mul
GfMul ==
    /\ codec.phase = "operands"
    /\ codec' = [codec EXCEPT !.phase = "multiplied",
                              !.reads = GfMulReads(codec.a, codec.b),
                              !.index = GfMulIndex(codec.a, codec.b),
                              !.ret = gf_mul(codec.a, codec.b)]
    /\ UNCHANGED <<rsvars, fecvars, ctorvars>>

InitGf ==
    /\ RSFecIdle
    /\ FecConstructed(1, 1)
    /\ NoAttempt
    /\ \E a \in 0..255 : \E b \in 0..255 :
          codec = [phase |-> "operands", a |-> a, b |-> b, reads |-> {},
                   index |-> -1, ret |-> 0]

NextGf == GfMul

SpecGf == InitGf /\ [][NextGf]_vars

\* ------------------------------------------------- loss-free receive
\* The receive side alone, fed a loss-free stream in sequence order: packet
\* number t (from 0) carries sequence number rcv_base + t; within each run
\* of k + m packets the first k are source packets and the other m the
\* parity packets of those k.
MaxStream == 8     \* receive calls per behaviour of the loss-free stream

\* the k source shards of the block the stream is in
StreamBlock == [i \in 1..m_k |-> fed[(Len(fed) - m_k) + i].data]

\* the packets that may come next in the stream
StreamPkts ==
    LET idx == nrecv % (m_k + m_m)
        seq == incseq(rcv_base, nrecv)
    IN  IF idx < m_k
        THEN {[seq |-> seq, ts |-> 10 * (Len(fed) + 1), ctl |-> FALSE,
               data |-> [j \in 1..payloadSize |-> b]] : b \in 1..MaxByte}
        ELSE {[seq |-> seq, ts |-> fed[Len(fed)].ts, ctl |-> TRUE,
               data |-> [j \in 1..payloadSize |->
                           encode_rs_char(Column(StreamBlock, j), m_m)[(idx - m_k) + 1]]]}

StreamReceive ==
    /\ nrecv < MaxStream
    /\ \E pkt \in StreamPkts :
          /\ receiveCall(pkt)
          /\ fed' = IF pkt.ctl THEN fed ELSE Append(fed, pkt)
          /\ trSeq' = incseq(pkt.seq, 1)
    /\ UNCHANGED <<m_k, m_m, m_timeout_us, now, nticks, sndHist, snd, rcv_base,
                   sndBlocks, packLog>>
    /\ UNCHANGED <<fecvars, ctorvars, codec>>

InitStream ==
    /\ Init
    /\ trSeq = rcv_base

NextStream == StreamReceive

SpecStream == InitStream /\ [][NextStream]_vars

\* ------------------------------------------------ reordered receive
\* The receive side alone, given the packets of the block at rcv_base in
\* any order, any of them any number of times.
MaxReorder == 5    \* receive calls per behaviour of the reordered block

\* the k source shards of the block: source packet i (from 0) is filled as
\* in the test fixture
BlockData == [i \in 1..m_k |-> FixtureShard(i - 1)]

\* the k + m packets of the block as the send side stamps them: source i
\* with sequence rcv_base + i and timestamp 10 * (i + 1), parity p with
\* sequence rcv_base + k + p and the timestamp of the k-th source packet
BlockPkts ==
    {[seq |-> incseq(rcv_base, i), ts |-> 10 * (i + 1), ctl |-> FALSE,
      data |-> BlockData[i + 1]] : i \in 0..(m_k - 1)}
    \cup
    {[seq |-> incseq(rcv_base, m_k + p), ts |-> 10 * m_k, ctl |-> TRUE,
      data |-> [j \in 1..payloadSize |->
                  encode_rs_char(Column(BlockData, j), m_m)[p + 1]]] :
        p \in 0..(m_m - 1)}

ReorderReceive ==
    /\ nrecv < MaxReorder
    /\ \E pkt \in BlockPkts : receiveCall(pkt)
    /\ UNCHANGED <<m_k, m_m, m_timeout_us, now, nticks, sndHist, snd, rcv_base,
                   trSeq, fed, sndBlocks, packLog>>
    /\ UNCHANGED <<fecvars, ctorvars, codec>>

InitReorder ==
    /\ Init
    /\ trSeq = rcv_base

NextReorder == ReorderReceive

SpecReorder == InitReorder /\ [][NextReorder]_vars

\* --------------------------------------------------- short payloads
\* The send side fed source packets whose payload is shorter than a shard.
\* A packet carries len, its payload length (getLength()), and data, the
\* payloadSize bytes that start at pkt.data(): the len payload bytes and
\* behind them whatever the packet buffer holds.
ShortPkts ==
    {[seq |-> seq, ts |-> 10 * (Len(fed) + 1), ctl |-> FALSE, data |-> buf,
      len |-> len] :
        seq \in NextSeqs, buf \in [1..payloadSize -> DataBytes],
        len \in 0..payloadSize}

DoFeedShort ==
    /\ \E pkt \in ShortPkts : feedSource(pkt)
    /\ UNCHANGED <<fecvars, ctorvars, codec>>

NextShort == DoFeedShort \/ DoPack

SpecShort == Init /\ [][NextShort]_vars

\* ------------------------------------------------------- long streams
\* The receive side alone, given packets of a stream that has run for a
\* long time: the packet at stream position pos (packets carried since the
\* origin rcv_base) has sequence number rcv_base + pos in the circular
\* 31-bit space, and every packet passed to receive is later in the stream
\* than all packets before it.
MaxLongRecv == 4   \* receive calls per behaviour of the long stream

\* stream positions explored: the start of the stream and the positions
\* around 2^30 packets
LongPositions ==
    {0, 1, 2, m_iSeqNoTH - 1, m_iSeqNoTH, m_iSeqNoTH + 1, m_iSeqNoTH + 2}

\* the stream position of a sequence number, for a stream that has carried
\* fewer than 2^31 packets
StreamPos(seq) ==
    IF seq >= rcv_base THEN seq - rcv_base
    ELSE (seq + (m_iMaxSeqNo - rcv_base)) + 1

\* the packet at a stream position, with the layout of the send side and
\* the payload of the test fixture
LongPkt(pos) ==
    [seq |-> incseq(rcv_base, pos), ts |-> 10, ctl |-> (pos % (m_k + m_m)) >= m_k,
     data |-> FixtureShard(pos)]

LongReceive ==
    /\ nrecv < MaxLongRecv
    /\ \E pos \in LongPositions :
          /\ \A d \in delivered : StreamPos(d.seq) < pos
          /\ receiveCall(LongPkt(pos))
    /\ UNCHANGED <<m_k, m_m, m_timeout_us, now, nticks, sndHist, snd, rcv_base,
                   trSeq, fed, sndBlocks, packLog>>
    /\ UNCHANGED <<fecvars, ctorvars, codec>>

NextLong == LongReceive

SpecLong == InitStream /\ [][NextLong]_vars

\* -------------------------- RSFecFilter, PIMPL variant (part_008)
\* The receive side of the PIMPL variant: rcv_base moves forward when a
\* block is evicted or reconstructed.  The variables m_k, m_m, rcv_groups,
\* rcv_base and m_provided stand for the members of RSFecFilter::Impl with
\* the same names.  The message number stamped on a supplied packet
\* (m_rcv_msgno_counter) is left out: it reaches no other state.
MaxPimplRecv == 4  \* receive calls per behaviour of the PIMPL variant
MaxPimplPos == 7   \* stream positions 0..MaxPimplPos are on the wire

\* the first sequence number of the stream, rcv_base at construction
Origin == incseq(rcvISN, 1)

\* the first group of the map in CSeqNoCompare order
FirstGroup(groups) ==
    CHOOSE b \in DOMAIN groups : \A x \in DOMAIN groups : seqoff(b, x) >= 0

RECURSIVE EvictOld(_, _, _)
\* lines 1189-1201: evict the leading groups that lie more than
\* MAX_GROUP_AGE_IN_PACKETS behind seq; the groups and rcv_base after it
EvictOld(groups, base, seq) ==
    IF groups = <<>> THEN [groups |-> groups, base |-> base]
    ELSE LET b == FirstGroup(groups)
         IN  IF seqoff(b, seq) > MAX_GROUP_AGE_IN_PACKETS
             THEN EvictOld(Erase(groups, b), incseq(b, m_k + m_m), seq)
             ELSE [groups |-> groups, base |-> base]

\* PimplStored with the group keyed by the packet's own sequence number
PimplStored_AtPacket(groups, base, pkt) ==
    LET n == m_k + m_m
        off == seqoff(base, pkt.seq)
        idx == off % n
        gbase == incseq(base, off)
        g0 == IF gbase \in DOMAIN groups THEN groups[gbase] ELSE NewGroup(gbase)
        g1 == IF ~g0.ts_set
              THEN [g0 EXCEPT !.timestamp = pkt.ts, !.ts_set = TRUE]
              ELSE g0
        g2 == IF idx < m_k
              THEN IF ~g1.have_data[idx + 1]
                   THEN [g1 EXCEPT !.data[idx + 1] = pkt.data,
                                   !.have_data[idx + 1] = TRUE,
                                   !.have_count = g1.have_count + 1]
                   ELSE g1
              ELSE IF (idx - m_k) < m_m /\ ~g1.have_parity[(idx - m_k) + 1]
                   THEN [g1 EXCEPT !.parity[(idx - m_k) + 1] = pkt.data,
                                   !.have_parity[(idx - m_k) + 1] = TRUE,
                                   !.have_count = g1.have_count + 1]
                   ELSE g1
    IN  [gbase |-> gbase, idx |-> idx, g |-> g2]

\* lines 1203-1246: the group the packet is stored in, its base and the
\* index of the packet, for a packet at a non-negative offset from base
PimplStored(groups, base, pkt) ==
    LET n == m_k + m_m
        off == seqoff(base, pkt.seq)
        idx == off % n
        gbase == incseq(base, (off \div n) * n)
        g0 == IF gbase \in DOMAIN groups THEN groups[gbase] ELSE NewGroup(gbase)
        g1 == IF ~g0.ts_set
              THEN [g0 EXCEPT !.timestamp = pkt.ts, !.ts_set = TRUE]
              ELSE g0
        g2 == IF idx < m_k
              THEN IF ~g1.have_data[idx + 1]
                   THEN [g1 EXCEPT !.data[idx + 1] = pkt.data,
                                   !.have_data[idx + 1] = TRUE,
                                   !.have_count = g1.have_count + 1]
                   ELSE g1
              ELSE IF (idx - m_k) < m_m /\ ~g1.have_parity[(idx - m_k) + 1]
                   THEN [g1 EXCEPT !.parity[(idx - m_k) + 1] = pkt.data,
                                   !.have_parity[(idx - m_k) + 1] = TRUE,
                                   !.have_count = g1.have_count + 1]
                   ELSE g1
    IN  [gbase |-> gbase, idx |-> idx, g |-> g2]

\* Impl::reconstruct_if_possible: the results it may have, the value
\* returned and the group as it leaves it
reconstruct_if_possible(g) ==
    LET present == Cardinality({q \in 1..m_m : g.have_parity[q]})
    IN  IF g.have_count < m_k THEN {[ok |-> FALSE, g |-> g]}
        ELSE IF Miss(g) = {} THEN {[ok |-> TRUE, g |-> g]}
        ELSE IF Cardinality(Miss(g)) > present THEN {[ok |-> FALSE, g |-> g]}
        ELSE {[ok |-> DecodedUpTo(outs, payloadSize),
               g |-> [g EXCEPT !.data = DecodedData(g, outs)]] :
                 outs \in OutcomeSeqs(g, payloadSize)}

\* lines 1254-1267: a packet for each of the k source positions of a
\* reconstructed group
AllSourcePkts(g) ==
    [i \in 1..m_k |-> [seq |-> incseq(g.base, i - 1), ts |-> g.timestamp,
                       data |-> g.data[i]]]

RECURSIVE Reconstructed(_, _, _)
\* lines 1248-1277: reconstruct the leading groups while that succeeds;
\* the possible tables, rcv_base values and provided queues after it
Reconstructed(groups, base, provided) ==
    IF groups = <<>>
    THEN {[groups |-> groups, base |-> base, provided |-> provided]}
    ELSE LET b == FirstGroup(groups)
         IN  UNION {IF r.ok
                    THEN Reconstructed(Erase(groups, b), incseq(b, m_k + m_m),
                                       provided \o AllSourcePkts(r.g))
                    ELSE {[groups |-> Put(groups, b, r.g), base |-> base,
                           provided |-> provided]} :
                      r \in reconstruct_if_possible(groups[b])}

\* RSFecFilter::receive of the PIMPL variant: the possible results
PimplReceiveResults(groups, base, provided, pkt) ==
    LET e == EvictOld(groups, base, pkt.seq)
        st == PimplStored(e.groups, e.base, pkt)
    IN  IF seqoff(e.base, pkt.seq) < 0
        THEN {[groups |-> e.groups, base |-> e.base, provided |-> provided,
               gbase |-> SRT_SEQNO_NONE, idx |-> -1]}
        ELSE {[groups |-> r.groups, base |-> r.base, provided |-> r.provided,
               gbase |-> st.gbase, idx |-> st.idx] :
                r \in Reconstructed(Put(e.groups, st.gbase, st.g), e.base, provided)}

\* one call of the PIMPL variant's receive
pimplReceive(pkt) ==
    /\ \E r \in PimplReceiveResults(rcv_groups, rcv_base, m_provided, pkt) :
          /\ rcv_groups' = r.groups
          /\ rcv_base' = r.base
          /\ m_provided' = r.provided
          /\ last' = [val |-> TRUE, pkt |-> pkt, gbase |-> r.gbase,
                      idx |-> r.idx, dec |-> "none"]
    /\ delivered' = delivered \cup {pkt}
    /\ nrecv' = nrecv + 1
    /\ UNCHANGED <<m_k, m_m, m_timeout_us, now, nticks, sndHist, snd, trSeq, fed,
                   sndBlocks, packLog, srcAfterPar, first_ts>>
    /\ UNCHANGED <<fecvars, ctorvars, codec>>

\* the packet at stream position pos (from 0 at Origin): within each run
\* of k + m positions the first k are the source packets of the test
\* fixture and the other m the parity packets of those k
PimplPkt(pos) ==
    LET n == m_k + m_m
        first == (pos \div n) * n
        idx == pos % n
        block == [i \in 1..m_k |-> FixtureShard(first + (i - 1))]
    IN  IF idx < m_k
        THEN [seq |-> incseq(Origin, pos), ts |-> 10 * (pos + 1), ctl |-> FALSE,
              data |-> block[idx + 1]]
        ELSE [seq |-> incseq(Origin, pos), ts |-> 10 * (first + m_k), ctl |-> TRUE,
              data |-> [j \in 1..payloadSize |->
                          encode_rs_char(Column(block, j), m_m)[(idx - m_k) + 1]]]

\* any packet of the stream, in any order, any number of times
DoPimplReceive ==
    /\ nrecv < MaxPimplRecv
    /\ \E pos \in 0..MaxPimplPos : pimplReceive(PimplPkt(pos))

NextPimpl == DoPimplReceive

SpecPimpl == InitStream /\ [][NextPimpl]_vars

\* the packets of the stream in sequence order, some of them lost
DoPimplReceiveInOrder ==
    /\ \E pos \in 0..MaxPimplPos :
          /\ \A d \in delivered : seqoff(Origin, d.seq) < pos
          /\ pimplReceive(PimplPkt(pos))

NextPimplStream == DoPimplReceiveInOrder

SpecPimplStream == InitStream /\ [][NextPimplStream]_vars

\* ----------------------------------------------------------------- claims
SeqRange(q) == {q[i] : i \in 1..Len(q)}

\* the source packets fed so far carry consecutive sequence numbers that
\* start at rcv_base
Consecutive == \A i \in 1..Len(fed) : fed[i].seq = incseq(rcv_base, i - 1)

\* the parity packets packControlPacket has supplied
Supplied == {packLog[i].pkt : i \in {n \in 1..Len(packLog) : packLog[n].val}}

\* the fed source packets that were not passed to receive
Lost == {s \in SeqRange(fed) : s \notin delivered}

\* One block, aligned with rcv_base, was fed and all its m parity packets
\* were obtained; receive got each delivered packet once, the source packets
\* (all but e of them, 1 <= e <= m) before the m parity packets.
OneBlockLoopback ==
    /\ Len(fed) = m_k
    /\ Len(sndBlocks) = 1
    /\ fed[1].seq = rcv_base
    /\ Cardinality(Supplied) = m_m
    /\ Supplied \subseteq delivered
    /\ nrecv = Cardinality(delivered)
    /\ ~srcAfterPar
    /\ Cardinality(Lost) >= 1
    /\ Cardinality(Lost) <= m_m

\* C1: after one block is looped back with e source packets missing,
\* 1 <= e <= m, sources first and then all m parity packets, the provided
\* queue holds exactly e rebuilt packets, one per missing source packet, with
\* its sequence number and payload.
C1_RebuildExactlyMissing ==
    OneBlockLoopback =>
        /\ Len(m_provided) = Cardinality(Lost)
        /\ \A s \in Lost :
              \E i \in 1..Len(m_provided) :
                 m_provided[i].seq = s.seq /\ m_provided[i].data = s.data

\* C2: receive returns passthrough = true for every source data packet.
C2_SourcePassthrough ==
    (nrecv > 0 /\ ~last.pkt.ctl) => last.val = TRUE

\* packet pkt is source packet i (0-based) of the sender's block b
IsSourceOf(pkt, b, i) ==
    ~pkt.ctl /\ pkt.seq = incseq(b.base, i) /\ pkt.data = b.data[i + 1]

\* packet pkt is parity packet j (0-based) of the sender's block b
IsParityOf(pkt, b, j) ==
    pkt.ctl /\ pkt.seq = b.parity[j + 1].seq /\ pkt.data = b.parity[j + 1].data

\* C3: with consecutive source sequence numbers from rcv_base, receive
\* places source packet i of a sender block at data index i, and parity
\* packet j at parity index j, of the receive block with the sender's base.
C3_BlockAgreement ==
    (nrecv > 0 /\ Consecutive) =>
        \A n \in 1..Len(sndBlocks) :
            /\ \A i \in 0..(m_k - 1) :
                  IsSourceOf(last.pkt, sndBlocks[n], i) =>
                      (last.gbase = sndBlocks[n].base /\ last.idx = i)
            /\ \A j \in 0..(m_m - 1) :
                  IsParityOf(last.pkt, sndBlocks[n], j) =>
                      (last.gbase = sndBlocks[n].base /\ last.idx = m_k + j)

RECURSIVE Replay(_, _, _)
\* the provided queue after receive has been given the packets pkts in
\* sequence order, starting from the receive state (groups, provided)
Replay(groups, provided, pkts) ==
    IF pkts = {} THEN provided
    ELSE LET p == CHOOSE x \in pkts : \A y \in pkts : seqoff(x.seq, y.seq) >= 0
             outs == CHOOSE o \in DecoderAnswers(groups, p) : TRUE
             r == ReceiveResult(groups, provided, p, outs)
         IN  Replay(r.groups, r.provided, pkts \ {p})

\* only the packets of one block aligned with rcv_base are on the wire,
\* receive got each delivered packet once, and no source packet arrived
\* after it had been rebuilt
OneBlockOnce ==
    /\ Len(fed) = m_k
    /\ fed[1].seq = rcv_base
    /\ nrecv = Cardinality(delivered)
    /\ \A i \in 1..Len(m_provided) :
          \A d \in delivered : ~(~d.ctl /\ d.seq = m_provided[i].seq)

\* C4: for a fixed set of delivered packets of a block, the set of rebuilt
\* packets is the same whatever the order of delivery (here: the same as
\* for delivery in sequence order, source packets first).
C4_OrderIndependent ==
    OneBlockOnce =>
        SeqRange(m_provided) = SeqRange(Replay(<<>>, <<>>, delivered))

\* C5: in a receive call for a block that, with the arriving shard stored,
\* still misses more than m source shards, no rebuilt packet is pushed and
\* the block keeps exactly the source shards it has received.
C5_OverCapacity ==
    [][(/\ nrecv' = nrecv + 1
        /\ Off(last'.pkt) >= 0
        /\ Cardinality(Miss(Stored(rcv_groups, last'.pkt))) > m_m) =>
          /\ m_provided' = m_provided
          /\ GBase(last'.pkt) \in DOMAIN rcv_groups'
          /\ rcv_groups'[GBase(last'.pkt)].have_data
                = Stored(rcv_groups, last'.pkt).have_data
          /\ rcv_groups'[GBase(last'.pkt)].data
                = Stored(rcv_groups, last'.pkt).data]_vars

\* C5 witness: parity has arrived for a block that misses more than m
\* source shards, and nothing was rebuilt.
C5_Witness ==
    /\ nrecv > 0
    /\ last.pkt.ctl
    /\ last.gbase \in DOMAIN rcv_groups
    /\ Cardinality(Miss(rcv_groups[last.gbase])) > m_m
    /\ \E p \in 1..m_m : rcv_groups[last.gbase].have_parity[p]
    /\ m_provided = <<>>

\* C6: no sequence number is pushed to the provided queue more than once.
C6_NoDoublePush ==
    \A i, j \in 1..Len(m_provided) :
        i # j => m_provided[i].seq # m_provided[j].seq

\* the group table already holds the shard the packet would be stored as
Holds(groups, pkt) ==
    /\ Off(pkt) >= 0
    /\ GBase(pkt) \in DOMAIN groups
    /\ IF Idx(pkt) < m_k
       THEN groups[GBase(pkt)].have_data[Idx(pkt) + 1]
       ELSE groups[GBase(pkt)].have_parity[(Idx(pkt) - m_k) + 1]

\* C7: delivering a shard a block in the table already holds leaves the
\* block's have_count, have_data, have_parity and shard bytes unchanged.
C7_DuplicateNoChange ==
    [][(nrecv' = nrecv + 1 /\ Holds(rcv_groups, last'.pkt)) =>
          /\ GBase(last'.pkt) \in DOMAIN rcv_groups'
          /\ rcv_groups'[GBase(last'.pkt)] = rcv_groups[GBase(last'.pkt)]]_vars

\* C8: receive returns passthrough = false for every parity packet that
\* packControlPacket produced.
C8_ParityConsumed ==
    (nrecv > 0 /\ last.pkt.ctl) => last.val = FALSE

\* the packControlPacket calls made while sender block n was the latest
\* block filled
RECURSIVE CallsOfBlock(_, _)
CallsOfBlock(log, n) ==
    IF log = <<>> THEN <<>>
    ELSE (IF Head(log).blk = n THEN <<Head(log)>> ELSE <<>>)
         \o CallsOfBlock(Tail(log), n)

\* C9: packControlPacket returns false while collected < k; after the k-th
\* source packet of a block the next m calls return true with the block's
\* parity shards 0..m-1 in order, and the call after them returns false and
\* resets collected to 0.
C9_PackSequence ==
    /\ \A c \in 1..Len(packLog) : packLog[c].pre < m_k => ~packLog[c].val
    /\ \A n \in 1..Len(sndBlocks) :
          LET calls == CallsOfBlock(packLog, n)
          IN  \A c \in 1..Len(calls) :
                 /\ c <= m_m =>
                       /\ calls[c].val
                       /\ calls[c].pkt.seq = sndBlocks[n].parity[c].seq
                       /\ calls[c].pkt.data = sndBlocks[n].parity[c].data
                 /\ c = m_m + 1 => (~calls[c].val /\ calls[c].post = 0)

\* C10: when the decoder reports failure, no rebuilt packet is pushed and
\* the block stays in the table with the have_data flags and shards it had
\* after the arriving shard was stored.
C10_DecodeFailureKeepsBlock ==
    [][(nrecv' = nrecv + 1 /\ last'.dec = "fail") =>
          /\ m_provided' = m_provided
          /\ last'.gbase \in DOMAIN rcv_groups'
          /\ rcv_groups'[last'.gbase] = Stored(rcv_groups, last'.pkt)]_vars

\* C11: after every FECReedSolomon::receive call the table receiver_groups
\* holds at most MAX_GROUPS entries.
C11_TableBounded ==
    fec_nrecv > 0 => Cardinality(DOMAIN receiver_groups) <= MAX_GROUPS

\* the configurations the filter is to be created with
ValidConfig(c) ==
    /\ c.k >= 1
    /\ c.m >= 1
    /\ c.k <= 255
    /\ c.m <= 255
    /\ c.k + c.m <= 255
    /\ (c.has_timeout => c.timeout >= 0)

\* C12: construction yields a filter exactly for k >= 1, m >= 1,
\* k + m <= 255 and a timeout, if given, >= 0; every other configuration
\* ends in a configuration error.
C12_ConstructionExact ==
    made.outcome # "none" =>
        /\ (made.outcome = "created" <=> ValidConfig(conf))
        /\ (~ValidConfig(conf) => made.outcome = "ConfigError")

\* C13: with timeout > 0, a packControlPacket call made while fewer than k
\* packets are buffered and at least timeout milliseconds after the first
\* packet of the block was fed resets the partial block to collected = 0,
\* and no parity shard is ever computed from a discarded packet; with
\* timeout = 0 packControlPacket never discards a partial block.
C13_TimeoutFlush ==
    [][(Len(packLog') = Len(packLog) + 1 /\ snd.collected < m_k) =>
          /\ (/\ conf.timeout > 0
              /\ snd.collected > 0
              /\ now - sndHist.first_at >= conf.timeout) => snd'.collected = 0
          /\ conf.timeout = 0 => snd'.collected = snd.collected
          /\ \A n \in 1..Len(sndBlocks') :
                \A i \in 1..m_k : sndBlocks'[n].src[i] \notin sndHist'.discarded]_vars

\* a partial block was discarded on its deadline and packets fed later
\* have filled a block
C13_Witness ==
    /\ conf.timeout > 0
    /\ sndHist.discarded # {}
    /\ sndBlocks # <<>>

\* C14: receive changes no send-side state and none of the sender's
\* outputs; feedSource and packControlPacket change no receive-side state
\* and none of the receiver's outputs.
C14_DisjointSides ==
    [][/\ nrecv' # nrecv =>
            /\ snd' = snd
            /\ <<fed', sndBlocks', packLog'>> = <<fed, sndBlocks, packLog>>
       /\ (fed' # fed \/ packLog' # packLog) =>
            /\ <<rcv_groups', rcv_base', m_provided'>> =
                   <<rcv_groups, rcv_base, m_provided>>
            /\ <<delivered', last'>> = <<delivered, last>>]_vars

\* both sides have acted and hold state
C14_Witness ==
    /\ nrecv > 0
    /\ rcv_groups # <<>>
    /\ Len(packLog) > 0
    /\ snd.collected > 0
    /\ snd.next_parity > 0

\* C15: a receive call for a packet whose sequence number precedes
\* rcv_base leaves the block table and the provided queue as they were, so
\* it changes neither the result of any other receive call nor the
\* contents of the provided queue.
C15_OutOfWindowInert ==
    [][(nrecv' = nrecv + 1 /\ seqoff(rcv_base, last'.pkt.seq) < 0) =>
          /\ rcv_groups' = rcv_groups
          /\ m_provided' = m_provided
          /\ rcv_base' = rcv_base]_vars

\* an out-of-window packet has arrived while a block was being collected
C15_Witness ==
    /\ nrecv > 1
    /\ seqoff(rcv_base, last.pkt.seq) < 0
    /\ rcv_groups # <<>>

\* a control packet of at least 8 bytes whose first word has 0x8008 in its
\* upper half
IsFecParity(pkt) ==
    /\ pkt.ctl
    /\ Len(pkt.data) >= 8
    /\ pkt.data[1] = 128 /\ pkt.data[2] = 8

\* C16: FECReedSolomon::receive goes on to the parity header exactly for a
\* control packet of at least 8 bytes with the FEC subtype; for every
\* other packet it returns passthrough = true and leaves the group table
\* as it was.
C16_ParityClassification ==
    [][\A pkt \in FecInputs :
          fecReceive(pkt) =>
             /\ (fec_ret'.site \in {322, 329, 359}) <=> IsFecParity(pkt)
             /\ ~IsFecParity(pkt) =>
                   (fec_ret'.val = TRUE /\ receiver_groups' = receiver_groups)]_vars

\* the parity index and the k echo of the FEC header
ParityIndexOf(pkt) == pkt.data[7]
KEchoOf(pkt) == pkt.data[8]

\* C17: a parity packet whose k echo differs from data_shards or whose
\* parity index is >= parity_shards is dropped: receive returns false,
\* creates no group and leaves every group it keeps as it was.
C17_MalformedParityDropped ==
    [][\A pkt \in FecInputs :
          (/\ IsFecParity(pkt)
           /\ (KEchoOf(pkt) # data_shards \/ ParityIndexOf(pkt) >= parity_shards)
           /\ fecReceive(pkt)) =>
             /\ fec_ret'.val = FALSE
             /\ DOMAIN receiver_groups' \subseteq DOMAIN receiver_groups
             /\ \A g \in DOMAIN receiver_groups' :
                   receiver_groups'[g] = receiver_groups[g]]_vars

\* a parity packet with a foreign k echo has been dropped while groups
\* were being collected
C17_Witness ==
    /\ fec_ret.site = 329
    /\ receiver_groups # <<>>

\* C18: after rs_encode2 has computed the parity of source shards S,
\* rs_decode2 with at most m shards missing returns success and every
\* missing source shard equals the shard of S at its position.
C18_CodecRoundTrip ==
    codec.phase = "decoded" =>
        /\ codec.ret = 0
        /\ \A i \in codec.missing :
              i <= codec.k => codec.shards[i] = codec.orig[i]

\* RSFecFilter::arqLevel: the level the filter reports to the transport.
arqLevel == "SRT_ARQ_NEVER"

\* C19: RSFecFilter::arqLevel always reports SRT_ARQ_ONREQ, so that
\* retransmission stays available for losses the filter did not recover.
C19_ArqOnRequest ==
    m_k >= 1 => arqLevel = "SRT_ARQ_ONREQ"

\* C20: at the end of every receive call no block of rcv_groups has
\* have_count >= k together with between 1 and m source shards missing: a
\* block that reaches k shards with a source shard missing is decoded in
\* the call that brought it there, for a source and for a parity shard.
C20_DecodedInSameCall ==
    nrecv > 0 =>
        \A b \in DOMAIN rcv_groups :
            ~(/\ rcv_groups[b].have_count >= m_k
              /\ Cardinality(Miss(rcv_groups[b])) \in 1..m_m)

\* C21: once all k + m packets of a block have been passed to receive in
\* sequence order with no loss, rcv_groups holds no entry for the block: a
\* loss-free stream leaves the table empty after each complete block.
C21_LossFreeTableEmpty ==
    (nrecv > 0 /\ nrecv % (m_k + m_m) = 0) => rcv_groups = <<>>

\* the blocks with computed parity that hold fed packet number i
BlocksHolding(i) ==
    {n \in 1..Len(sndBlocks) : \E c \in 1..m_k : sndBlocks[n].src[c] = i}

\* fed packet number i sits in the block being collected
InCollecting(i) ==
    snd.collected < m_k /\ \E c \in 1..snd.collected : sndHist.src[c] = i

\* C22: with the timeout disabled, in every interleaving of feedSource and
\* packControlPacket calls each fed source packet is copied into exactly
\* one block (the one being collected, or one whose parity was computed
\* over it); no fed packet is left out of every block.
C22_EveryFedPacketInOneBlock ==
    m_timeout_us = 0 =>
        \A i \in 1..Len(fed) :
            Cardinality(BlocksHolding(i)) + (IF InCollecting(i) THEN 1 ELSE 0) = 1

\* the successful packControlPacket calls
Supplies == {c \in 1..Len(packLog) : packLog[c].val}

\* C23: each parity shard (block, parity index) is supplied by
\* packControlPacket at most once, and the base sequence a supplied parity
\* packet is stamped from is the sequence number of the first of the k
\* source packets it was computed from.
C23_ParitySuppliedOnce ==
    /\ \A c, d \in Supplies :
          (c # d /\ packLog[c].blk = packLog[d].blk)
              => packLog[c].pkt.seq # packLog[d].pkt.seq
    /\ \A c \in Supplies :
          \E p \in 0..(m_m - 1) :
              packLog[c].pkt.seq
                  = incseq(fed[sndBlocks[packLog[c].blk].src[1]].seq, m_k + p)

\* C24: in every reachable state of the send side, next_parity > 0 implies
\* collected = k (parity has been computed for the current block and the
\* block has not been reset).
C24_NextParityOnlyWhenFull ==
    snd.next_parity > 0 => snd.collected = m_k

\* C25: 0 <= collected <= k and 0 <= next_parity <= m in every reachable
\* state, for every sequence of feedSource and packControlPacket calls, so
\* no slot outside data[0..k) or parity[0..m) is written or read.
C25_SendCountersInRange ==
    /\ 0 <= snd.collected /\ snd.collected <= m_k
    /\ 0 <= snd.next_parity /\ snd.next_parity <= m_m
    /\ Len(snd.data) = m_k
    /\ Len(snd.parity) = m_m

\* feedSource was called on a full block and every parity packet taken
C25_Witness ==
    /\ Len(fed) > m_k
    /\ Len(sndBlocks) = 1
    /\ snd.collected = m_k
    /\ snd.next_parity = m_m

\* number of true entries of a sequence of flags
TrueCount(flags) == Cardinality({i \in 1..Len(flags) : flags[i]})

\* C26: for every block of rcv_groups at the end of every receive call,
\* have_count equals the number of true entries of have_data plus the
\* number of true entries of have_parity, and 0 <= have_count <= k + m.
C26_HaveCountExact ==
    \A b \in DOMAIN rcv_groups :
        /\ rcv_groups[b].have_count
              = TrueCount(rcv_groups[b].have_data) + TrueCount(rcv_groups[b].have_parity)
        /\ 0 <= rcv_groups[b].have_count
        /\ rcv_groups[b].have_count <= m_k + m_m

\* a shard was delivered twice and a block in the table holds both a source
\* and a parity shard
C26_Witness ==
    /\ nrecv > Cardinality(delivered)
    /\ \E b \in DOMAIN rcv_groups :
          /\ TrueCount(rcv_groups[b].have_data) >= 1
          /\ TrueCount(rcv_groups[b].have_parity) >= 1
          /\ rcv_groups[b].have_count >= 2

\* C27: a block is removed from rcv_groups only in a call at whose end all
\* k of its source shards are present, received or reconstructed; a block
\* with a source shard still missing is never removed.
C27_RemovedOnlyWhenComplete ==
    [][(/\ nrecv' = nrecv + 1
        /\ last'.gbase # SRT_SEQNO_NONE
        /\ last'.gbase \notin DOMAIN rcv_groups') =>
          \/ Miss(Stored(rcv_groups, last'.pkt)) = {}
          \/ last'.dec = "ok"]_vars

\* the positions of [0, k + m) whose shard the block does not hold
AbsentPositions(g) ==
    {i \in 0..((m_k + m_m) - 1) :
        IF i < m_k THEN ~g.have_data[i + 1] ELSE ~g.have_parity[(i - m_k) + 1]}

\* C28: whenever the decoder is invoked for a block, the erasure list
\* passed to it consists of exactly the positions in [0, k + m) whose shard
\* is absent, without duplicates, and its length is at most m.
C28_ErasureListExact ==
    [][(nrecv' = nrecv + 1 /\ last'.dec # "none") =>
          LET g == Stored(rcv_groups, last'.pkt)
          IN  /\ SeqRange(ErasList(g)) = AbsentPositions(g)
              /\ Len(ErasList(g)) = Cardinality(AbsentPositions(g))
              /\ Len(ErasList(g)) <= m_m
              /\ Eras(g) = SeqRange(ErasList(g))]_vars

\* the decoder has run on a block that missed one source shard while one
\* of two parity shards was absent as well
C28_Witness ==
    /\ nrecv > 0
    /\ last.dec # "none"
    /\ m_m = 2
    /\ m_k = 2
    /\ Len(m_provided) = 1

\* C29: every rebuilt packet carries the sequence number base + i of the
\* source position i it replaces and the transport timestamp of the first
\* shard (source or parity) of its block that arrived.
C29_RebuiltStamp ==
    \A q \in 1..Len(m_provided) :
        LET off == seqoff(rcv_base, m_provided[q].seq)
            b == incseq(rcv_base, (off \div (m_k + m_m)) * (m_k + m_m))
        IN  /\ off >= 0
            /\ off % (m_k + m_m) < m_k
            /\ b \in DOMAIN first_ts
            /\ m_provided[q].ts = first_ts[b]

\* the payload of a packet followed by zero bytes up to the shard length
ZeroPadded(pkt) ==
    [j \in 1..payloadSize |-> IF j <= pkt.len THEN pkt.data[j] ELSE 0]

\* C30: the shard feedSource stores for a source packet whose payload is
\* shorter than the shard length equals the payload bytes followed by
\* zero bytes, whatever the slot held for an earlier block and whatever
\* lies behind the payload in the packet buffer.
C30_ShortPayloadZeroPadded ==
    snd.collected <= m_k =>
        \A c \in 1..snd.collected :
            snd.data[c] = ZeroPadded(fed[sndHist.src[c]])

\* C31: under wrap-around sequence arithmetic a packet that is later in
\* the stream than every packet received so far is never rejected as from
\* the past: it is assigned to a block, however many packets the stream
\* has carried.
C31_LaterPacketAssigned ==
    (nrecv > 0 /\ \A d \in delivered : StreamPos(d.seq) <= StreamPos(last.pkt.seq)) =>
        /\ last.gbase # SRT_SEQNO_NONE
        /\ seqoff(last.gbase, last.pkt.seq) = last.idx

\* group sequences around the 16-bit limit and parity shards of one and
\* of two bytes
FramedGroups == {0, 1, 65535, 65536, 65537}
FramedShards == {<<b>> : b \in DataBytes} \cup {<<2, 0>>}

TableSteps == {"expire", "limit", "lookup", "store"}

\* C32: every lookup, insertion, shard store and eviction on
\* receiver_groups is performed while receiver_mutex is held, so two
\* threads never read or write the table or a group's shards at the same
\* time.
C32_TableUnderMutex ==
    /\ \A t \in Threads : thr[t].pc \in TableSteps => receiver_mutex = t
    /\ \A t, u \in Threads :
          (t # u /\ thr[t].pc \in TableSteps) => thr[u].pc \notin TableSteps

\* one thread is storing a shard while the other waits for the mutex
C32_Witness ==
    \E t, u \in Threads :
        /\ thr[t].pc = "store"
        /\ thr[u].pc \in {"recv_lock", "cleanup_lock"}

\* C34: when receive of the PIMPL variant returns, the table holds no block
\* whose base is more than MAX_GROUP_AGE_IN_PACKETS behind the sequence
\* number of the packet, and rcv_base lies past every block the call
\* removed, so that a later packet of such a block creates no new block.
C34_NoOldBlockAfterReceive ==
    [][/\ \A b \in DOMAIN rcv_groups' :
             seqoff(b, last'.pkt.seq) <= MAX_GROUP_AGE_IN_PACKETS
       /\ \A b \in DOMAIN rcv_groups \ DOMAIN rcv_groups' :
             seqoff(b, rcv_base') >= m_k + m_m]_vars


\* the sequence numbers pushed to the provided queue by the step
PushedSeqs == {m_provided'[i].seq : i \in (Len(m_provided) + 1)..Len(m_provided')}

\* the source positions of the block at base b that no call has been given
LostSources(b) ==
    {i \in 0..(m_k - 1) : \A d \in delivered' : d.seq # incseq(b, i)}

\* C35: in the PIMPL variant a block whose packets arrive in sequence order
\* is not evicted by one of its own packets, and when its last packet has
\* been received with all its parity packets and at most m source packets
\* lost, the lost source packets have been rebuilt.
C35_InOrderBlockSurvives ==
    [][LET n == m_k + m_m
           seq == last'.pkt.seq
           b == incseq(Origin, (seqoff(Origin, seq) \div n) * n)
       IN  /\ \A x \in DOMAIN rcv_groups \ DOMAIN rcv_groups' :
                 x \notin PushedSeqs => seqoff(x, seq) >= n
           /\ (/\ seq = incseq(b, n - 1)
               /\ \A p \in m_k..(n - 1) : \E d \in delivered' : d.seq = incseq(b, p)
               /\ Cardinality(LostSources(b)) <= m_m)
              => \A i \in LostSources(b) :
                    \E q \in 1..Len(m_provided') : m_provided'[q].seq = incseq(b, i)]_vars


\* C36: the PIMPL variant pushes to the provided queue only source
\* positions that were never received: no packet a call pushes carries the
\* sequence number of a source packet given to this or an earlier call.
C36_OnlyLostSourcesPushed ==
    [][\A d \in delivered' : ~d.ctl => d.seq \notin PushedSeqs]_vars


\* C37: in the PIMPL variant rcv_base never moves backward in sequence
\* order, and every block base in rcv_groups lies at a non-negative
\* multiple of k + m from rcv_base.
C37_BaseForwardAndAligned ==
    [][/\ seqoff(rcv_base, rcv_base') >= 0
       /\ \A b \in DOMAIN rcv_groups' :
             /\ seqoff(rcv_base', b) >= 0
             /\ seqoff(rcv_base', b) % (m_k + m_m) = 0]_vars

\* rcv_base has moved past a reconstructed block and a block further on
\* than rcv_base is in the table
C37_Witness ==
    /\ seqoff(Origin, rcv_base) > 0
    /\ m_provided # <<>>
    /\ \E b \in DOMAIN rcv_groups : seqoff(rcv_base, b) > 0


\* C38: after gf_init the values gf_exp[0..254] are pairwise distinct and
\* non-zero, gf_log[gf_exp[i]] = i and gf_exp[i + 255] = gf_exp[i] for
\* every i in [0, 255); read at the positions i = codec.a and j = codec.b.
C38_GfTables ==
    LET i == codec.a
        j == codec.b
    IN  (i < 255)
        => /\ gf_exp(i) \in 1..255
           /\ (j < 255 /\ j # i) => gf_exp(j) # gf_exp(i)
           /\ gf_log[gf_exp(i)] = i
           /\ gf_exp(i + 255) = gf_exp(i)

\* the tables were read at the last position and at another one
C38_Witness == codec.phase = "multiplied" /\ codec.a = 254 /\ codec.b = 1

RECURSIVE ClMul(_, _)
\* the product of a and b as polynomials over GF(2)
ClMul(a, b) ==
    IF b = 0 THEN 0
    ELSE Xor(IF b % 2 = 1 THEN a ELSE 0, 2 * ClMul(a, b \div 2))

RECURSIVE PolyMod(_, _)
\* x, of degree at most 8 + d, reduced modulo GF_POLY
PolyMod(x, d) ==
    IF d < 0 THEN x
    ELSE PolyMod(IF (x \div (256 * (2 ^ d))) % 2 = 1
                 THEN Xor(x, GF_POLY * (2 ^ d)) ELSE x, d - 1)

\* C39: gf_mul(a, b) is the product of a and b as polynomials over GF(2)
\* reduced modulo 0x11d, 0 when either is 0; gf_log[0] is not read; the
\* position read in gf_exp is one that gf_init has filled.
C39_GfMulIsFieldProduct ==
    codec.phase = "multiplied"
    => /\ codec.ret = PolyMod(ClMul(codec.a, codec.b), 6)
       /\ (codec.a = 0 \/ codec.b = 0) => codec.ret = 0
       /\ 0 \notin codec.reads
       /\ codec.index # -1 => codec.index \in 0..511

\* two non-zero bytes whose logarithms add up past the first 255 entries
C39_Witness ==
    /\ codec.phase = "multiplied"
    /\ codec.index >= 255
    /\ codec.ret # 0


====
